---- MODULE Spec2Model ----
(***************************************************************************)
(* A model of the decision engine of AutoTraderPro: the Account            *)
(* guardrails, plan_trade and check_exit (logic.py), the signal aggregator *)
(* (signals.py) and the backtest loop (backtest.py).                       *)
(*                                                                         *)
(* Numbers.  Python floats are modelled by exact integers:                 *)
(*   - a price or an amount of money is an integer number of 1/Q dollars;  *)
(*     the inputs are multiples of Q/2 (half dollars), which makes         *)
(*     ATR/14, x1.5, 1 % of entry and the 0.5 retracement exact;           *)
(*   - a score or confidence is an integer number of 1/ScoreUnit;          *)
(*   - a probability is an integer number of percent;                      *)
(*   - a fraction of config.py is a numerator and a denominator.           *)
(* Float rounding is not modelled.                                         *)
(***************************************************************************)
EXTENDS Integers, Sequences, FiniteSets, TLC

VARIABLES
    account,            \* logic.Account: equity, trades_today, net_pnl_today, last_reset
    today,              \* what date.today() returns
    now,                \* what time.time() returns (seconds)
    trade,              \* the trade dict handed to check_exit
    ret,                \* the last call made and what it returned
    last_signal_time,   \* signals._last_signal_time: symbol -> time
    sig,                \* the last generate_signals call and what it returned
    bt,                 \* run_backtest: two runs, on bar series that differ in one bar
    mn,                 \* main.py: active_trades, the journal, and where each thread is
    opt                 \* strategy_optimizer: the weights, their file, the journal directory

vars == <<account, today, now, trade, ret, last_signal_time, sig, bt, mn, opt>>

----------------------------------------------------------------------------
(* Units and bounds *)

Q == 14 * 100
ScoreUnit == 100 * 420

Dollars(d) == d * Q
HalfDollars(h) == h * (Q \div 2)

MaxDay == 1          \* dates are 0..MaxDay
MaxHalfHours == 3    \* the exit clock runs MaxHalfHours steps of 1800 s
MaxExtraTrades == 1  \* update_pnl is called until trades_today = MAX_TRADES_PER_DAY + MaxExtraTrades

Abs(x) == IF x < 0 THEN -x ELSE x
Max(a, b) == IF a >= b THEN a ELSE b
Min(a, b) == IF a <= b THEN a ELSE b

----------------------------------------------------------------------------
(* config.py *)

RISK_PER_TRADE_NUM == 3         \* RISK_PER_TRADE_PCT = 0.0075 = 3/400
RISK_PER_TRADE_DEN == 400
MAX_DAILY_LOSS_NUM == 3         \* MAX_DAILY_LOSS_PCT = 0.03 = 3/100
MAX_DAILY_LOSS_DEN == 100
MAX_TRADES_PER_DAY == 6
KELLY_CAP_NUM == 1              \* KELLY_CAP_PCT = 0.02 = 1/50
KELLY_CAP_DEN == 50
CONFIDENCE_CUTOFF_NUM == 13     \* CONFIDENCE_CUTOFF = 0.65 = 13/20
CONFIDENCE_CUTOFF_DEN == 20
SIGNAL_COOLDOWN_SEC == 120
ATR_STOP_MULT_NUM == 3          \* ATR_STOP_MULT = 1.5 = 3/2
ATR_STOP_MULT_DEN == 2
TARGET_RR == 2
ATR_PERIOD == 14                \* regime.atr(period=14)
FALLBACK_STOP_DEN == 100        \* stop_dist = entry * 0.01
MAX_HOLD_SEC == 3600            \* check_exit: time-based exit after 1 hour
DEFAULT_EQUITY == 25000         \* Account.__init__(starting_equity=25000.0)

----------------------------------------------------------------------------
(* Bars: a sequence of rows [high, low, close, volume] *)

Row(h, l, c, v) == [high |-> h, low |-> l, close |-> c, volume |-> v]

\* n rows that all trade at p, with no range
FlatBars(n, p) == [i \in 1..n |-> Row(p, p, p, 10)]

\* n rows closing at p with high p + r and low p - r
RangeBars(n, p, r) == [i \in 1..n |-> Row(p + r, p - r, p, 10)]

RECURSIVE SumTo(_, _)
SumTo(s, n) == IF n = 0 THEN 0 ELSE s[n] + SumTo(s, n - 1)

\* the sum of a sequence
SumSeq(s) == SumTo(s, Len(s))

\* regime.atr lines 35-38: the true range of row i; the shifted close of the
\* first row is NaN, which max(axis=1) skips
TrueRange(bars, i) ==
    LET hl == bars[i].high - bars[i].low
    IN  IF i = 1 THEN hl
        ELSE Max(hl, Max(Abs(bars[i].high - bars[i - 1].close),
                         Abs(bars[i].low - bars[i - 1].close)))

\* regime.atr: the rolling mean is NaN with fewer than `period` rows (0.0 is
\* returned), and iloc[-1] of an empty frame raises (0.0 is returned)
atr(bars) ==
    LET n == Len(bars)
    IN  IF n < ATR_PERIOD THEN 0
        ELSE SumSeq([k \in 1..ATR_PERIOD |-> TrueRange(bars, n - ATR_PERIOD + k)])
                 \div ATR_PERIOD

----------------------------------------------------------------------------
(* logic.Account *)

NewAccount(d) ==
    [equity |-> Dollars(DEFAULT_EQUITY), trades_today |-> 0,
     net_pnl_today |-> 0, last_reset |-> d]

reset_day(a, d) ==
    [a EXCEPT !.trades_today = 0, !.net_pnl_today = 0, !.last_reset = d]

RolloverAlways(a, d) == reset_day(a, d)

\* can_trade lines 48-50: the rollover
Rollover(a, d) == IF d # a.last_reset THEN reset_day(a, d) ELSE a

MaxTradesReachedLoose(a) == a.trades_today > MAX_TRADES_PER_DAY
\* can_trade line 52
MaxTradesReached(a) == a.trades_today >= MAX_TRADES_PER_DAY

DailyLossReachedSigned(a) ==
    -a.net_pnl_today * MAX_DAILY_LOSS_DEN >= MAX_DAILY_LOSS_NUM * a.equity
\* can_trade line 56
DailyLossReached(a) ==
    Abs(a.net_pnl_today) * MAX_DAILY_LOSS_DEN >= MAX_DAILY_LOSS_NUM * a.equity

\* can_trade: the account after the call and the value returned
can_trade(a, d) ==
    LET b == Rollover(a, d)
    IN  [account |-> b,
         result  |-> ~MaxTradesReached(b) /\ ~DailyLossReached(b)]

update_pnl(a, pnl) ==
    [a EXCEPT !.equity = @ + pnl, !.net_pnl_today = @ + pnl,
              !.trades_today = @ + 1]

----------------------------------------------------------------------------
(* logic.plan_trade *)

NoTrade == [valid |-> FALSE]

StopDistNoFallback(entry, bars) ==
    (atr(bars) * ATR_STOP_MULT_NUM) \div ATR_STOP_MULT_DEN

\* lines 92-99: ATR x multiplier, or 1 % of entry when that is not positive
StopDist(entry, bars) ==
    LET d == (atr(bars) * ATR_STOP_MULT_NUM) \div ATR_STOP_MULT_DEN
    IN  IF d <= 0 THEN entry \div FALLBACK_STOP_DEN ELSE d

FinalSizeRiskOnly(equity, entry, stop_dist) ==
    Max(1, IF stop_dist > 0
           THEN (equity * RISK_PER_TRADE_NUM) \div (RISK_PER_TRADE_DEN * stop_dist)
           ELSE 0)

\* lines 101-106: int(max(1, min(pos_size, kelly_size)))
FinalSize(equity, entry, stop_dist) ==
    LET pos_size   == IF stop_dist > 0
                      THEN (equity * RISK_PER_TRADE_NUM) \div (RISK_PER_TRADE_DEN * stop_dist)
                      ELSE 0
        kelly_size == IF entry > 0
                      THEN (equity * KELLY_CAP_NUM) \div (KELLY_CAP_DEN * entry)
                      ELSE 0
    IN  Max(1, Min(pos_size, kelly_size))

\* line 112
ConfidenceTooLow(confidence) ==
    Abs(confidence) * CONFIDENCE_CUTOFF_DEN < CONFIDENCE_CUTOFF_NUM * ScoreUnit

\* lines 116-134
BuildTrade(a, entry, bars, confidence, t) ==
    LET stop_dist == StopDist(entry, bars)
        stop   == IF confidence > 0 THEN entry - stop_dist ELSE entry + stop_dist
        target == IF confidence > 0 THEN entry + stop_dist * TARGET_RR
                                    ELSE entry - stop_dist * TARGET_RR
    IN  [valid |-> TRUE, entry |-> entry, stop |-> stop, target |-> target,
         size |-> FinalSize(a.equity, entry, stop_dist),
         confidence |-> confidence, outcome |-> "OPEN", pnl |-> 0,
         trailing_stop |-> stop, entry_time |-> t]

\* plan_trade: the account after the call (can_trade may reset it) and the
\* trade returned
plan_trade(a, entry, bars, confidence, d, t) ==
    LET g == can_trade(a, d)
    IN  [account |-> g.account,
         trade   |-> IF ~g.result THEN NoTrade
                     ELSE IF FinalSize(g.account.equity, entry, StopDist(entry, bars)) < 1
                          THEN NoTrade
                     ELSE IF ConfidenceTooLow(confidence) THEN NoTrade
                     ELSE BuildTrade(g.account, entry, bars, confidence, t)]

----------------------------------------------------------------------------
(* logic.check_exit *)

Direction(t) == IF t.confidence > 0 THEN 1 ELSE -1

\* line 167
StopHit(t, price) ==
    \/ Direction(t) > 0 /\ price <= t.stop
    \/ Direction(t) < 0 /\ price >= t.stop

\* line 171
TargetHit(t, price) ==
    \/ Direction(t) > 0 /\ price >= t.target
    \/ Direction(t) < 0 /\ price <= t.target

\* lines 175-182: the trailing stop after the ratchet
Ratchet(t, price) ==
    IF Direction(t) > 0 /\ price > t.entry
    THEN Max(t.trailing_stop, price - (price - t.entry) \div 2)
    ELSE IF Direction(t) < 0 /\ price < t.entry
    THEN Min(t.trailing_stop, price + (t.entry - price) \div 2)
    ELSE t.trailing_stop

\* lines 177 and 181
TrailHit(t, price) ==
    \/ Direction(t) > 0 /\ price > t.entry /\ price <= Ratchet(t, price)
    \/ Direction(t) < 0 /\ price < t.entry /\ price >= Ratchet(t, price)

\* line 185
TimeUp(t, time) == time - t.entry_time > MAX_HOLD_SEC

ExitOutcomeTargetFirst(t, price, time) ==
    IF TargetHit(t, price) THEN "TARGET"
    ELSE IF StopHit(t, price) THEN "STOP"
    ELSE IF TrailHit(t, price) THEN "TRAIL"
    ELSE IF TimeUp(t, time) THEN "TIME"
    ELSE "None"

ExitOutcomeStrictStop(t, price, time) ==
    IF price # t.stop /\ StopHit(t, price) THEN "STOP"
    ELSE IF TargetHit(t, price) THEN "TARGET"
    ELSE IF TrailHit(t, price) THEN "TRAIL"
    ELSE IF TimeUp(t, time) THEN "TIME"
    ELSE "None"

\* lines 166-188: the value returned for a trade dict that has its keys
ExitOutcome(t, price, time) ==
    IF StopHit(t, price) THEN "STOP"
    ELSE IF TargetHit(t, price) THEN "TARGET"
    ELSE IF TrailHit(t, price) THEN "TRAIL"
    ELSE IF TimeUp(t, time) THEN "TIME"
    ELSE "None"

TrailingAfterLoose(t, price) ==
    IF StopHit(t, price) \/ TargetHit(t, price) THEN t.trailing_stop
    ELSE IF Direction(t) > 0 /\ price > t.entry
    THEN price - (price - t.entry) \div 2
    ELSE IF Direction(t) < 0 /\ price < t.entry
    THEN price + (t.entry - price) \div 2
    ELSE t.trailing_stop

\* the trailing stop the call leaves in the dict: the ratchet is reached only
\* when neither the stop nor the target returned first
TrailingAfter(t, price) ==
    IF StopHit(t, price) \/ TargetHit(t, price) THEN t.trailing_stop
    ELSE Ratchet(t, price)

\* check_exit: the value returned and the trade dict after the call.  A dict
\* without the keys read at lines 160-164 raises KeyError, which line 189
\* turns into None.
check_exit(t, price, time) ==
    IF ~t.valid THEN [outcome |-> "None", trade |-> t]
    ELSE [outcome |-> ExitOutcome(t, price, time),
          trade   |-> [t EXCEPT !.trailing_stop = TrailingAfter(t, price)]]

----------------------------------------------------------------------------
(* signals.py: the strategies *)

GEX_LIMIT == 1000000000         \* gamma_scalping: 1e9
FLOW_LIMIT_PCT == 60            \* options_flow: 0.6
LOOKBACK == 20                  \* breakout, mean_reversion: lookback=20
EMA_SPAN == 20                  \* vwap_ema_trend: ema(bars["close"], 20)
ORB_MIN_BARS == 30              \* orb: len(bars) < 30
ORB_RANGE_BARS == 5             \* orb: bars.iloc[:5]

StrategyNames ==
    {"vwap_ema_trend", "breakout", "mean_reversion", "expected_move_fade",
     "orb", "gamma_scalping", "options_flow"}

\* config.STRATEGY_TOGGLES
STRATEGY_TOGGLES == [s \in StrategyNames |-> TRUE]

SetMax(S) == CHOOSE x \in S : \A y \in S : y <= x
SetMin(S) == CHOOSE x \in S : \A y \in S : x <= y

\* the last n rows (all of them when there are fewer)
TailRows(bars, n) ==
    LET k == Len(bars)
    IN  IF k <= n THEN bars ELSE [i \in 1..n |-> bars[k - n + i]]

\* ema(series, span) with adjust=False: e[1] = c[1], e[i] = a c[i] + (1 - a) e[i-1]
\* with a = 2 / (span + 1); kept to 1/Q dollar, rounded down
RECURSIVE EmaAt(_, _)
EmaAt(bars, i) ==
    IF i = 1 THEN bars[1].close
    ELSE (2 * bars[i].close + (EMA_SPAN - 1) * EmaAt(bars, i - 1)) \div (EMA_SPAN + 1)

\* a dict entry that is absent or None reads as <<>>, a number v as <<v>>
Get(d, k) == IF k \in DOMAIN d THEN <<d[k]>> ELSE <<>>

vwap_ema_trend(bars) ==
    IF bars = <<>> THEN 0
    ELSE LET n       == Len(bars)
             close   == bars[n].close
             cum_vol == SumSeq([i \in 1..n |-> bars[i].volume])
             cum_pv  == SumSeq([i \in 1..n |-> bars[i].close * bars[i].volume])
             ema20   == EmaAt(bars, n)
         IN  IF cum_vol = 0 THEN 0      \* vwap is NaN or infinite
             ELSE IF close * cum_vol > cum_pv /\ close > ema20 THEN 1
             ELSE IF close * cum_vol < cum_pv /\ close < ema20 THEN -1
             ELSE 0

\* breakout against the LOOKBACK rows before the current one
BreakoutPriorRows(bars) ==
    IF Len(bars) < LOOKBACK THEN 0
    ELSE LET w          == TailRows(SubSeq(bars, 1, Len(bars) - 1), LOOKBACK)
             high       == SetMax({w[i].high : i \in DOMAIN w})
             low        == SetMin({w[i].low : i \in DOMAIN w})
             last_close == bars[Len(bars)].close
         IN  IF last_close > high THEN 1
             ELSE IF last_close < low THEN -1
             ELSE 0

\* signals.breakout lines 55-71
breakout(bars) ==
    IF Len(bars) < LOOKBACK THEN 0
    ELSE LET w          == TailRows(bars, LOOKBACK)
             high       == SetMax({w[i].high : i \in 1..LOOKBACK})
             low        == SetMin({w[i].low : i \in 1..LOOKBACK})
             last_close == bars[Len(bars)].close
         IN  IF last_close > high THEN 1
             ELSE IF last_close < low THEN -1
             ELSE 0

\* last_close > mean + 2 std, with the sample standard deviation (ddof = 1),
\* decided exactly on half dollars: with S the sum and d = n last - S,
\*     last - mean > 2 std   iff   d > 0 and (n - 1) d^2 > 4 sum (n x - S)^2
mean_reversion(bars) ==
    IF Len(bars) < LOOKBACK THEN 0
    ELSE LET w    == TailRows(bars, LOOKBACK)
             n    == LOOKBACK
             x    == [i \in 1..n |-> w[i].close \div (Q \div 2)]
             S    == SumSeq(x)
             d    == n * x[n] - S
             dev2 == SumSeq([i \in 1..n |-> (n * x[i] - S) * (n * x[i] - S)])
         IN  IF d > 0 /\ (n - 1) * d * d > 4 * dev2 THEN -1
             ELSE IF d < 0 /\ (n - 1) * d * d > 4 * dev2 THEN 1
             ELSE 0

expected_move_fade(context) ==
    LET price    == Get(context, "price")
        exp_move == Get(context, "expected_move")
    IN  IF DOMAIN context = {} THEN 0
        ELSE IF price = <<>> \/ price = <<0>> \/ exp_move = <<>> \/ exp_move = <<0>> THEN 0
        ELSE IF price[1] > exp_move[1] THEN -1
        ELSE IF price[1] < -exp_move[1] THEN 1
        ELSE 0

orb(bars) ==
    IF Len(bars) < ORB_MIN_BARS THEN 0
    ELSE LET high       == SetMax({bars[i].high : i \in 1..ORB_RANGE_BARS})
             low        == SetMin({bars[i].low : i \in 1..ORB_RANGE_BARS})
             last_close == bars[Len(bars)].close
         IN  IF last_close > high THEN 1
             ELSE IF last_close < low THEN -1
             ELSE 0

\* context.get("gamma_exposure", 0); comparing None raises, which gives 0
gamma_scalping(context) ==
    LET gex == Get(context, "gamma_exposure")
    IN  IF gex = <<>> THEN 0
        ELSE IF gex[1] > GEX_LIMIT THEN -1
        ELSE IF gex[1] < -GEX_LIMIT THEN 1
        ELSE 0

\* context.get("flow_score", 0), in percent
options_flow(context) ==
    LET flow_score == Get(context, "flow_score")
    IN  IF flow_score = <<>> THEN 0
        ELSE IF flow_score[1] > FLOW_LIMIT_PCT THEN 1
        ELSE IF flow_score[1] < -FLOW_LIMIT_PCT THEN -1
        ELSE 0

RunStrategiesUntoggled(toggles, bars, context) ==
    [s \in StrategyNames |->
        CASE s = "vwap_ema_trend"     -> vwap_ema_trend(bars)
          [] s = "breakout"           -> breakout(bars)
          [] s = "mean_reversion"     -> mean_reversion(bars)
          [] s = "expected_move_fade" -> expected_move_fade(context)
          [] s = "orb"                -> orb(bars)
          [] s = "gamma_scalping"     -> gamma_scalping(context)
          [] s = "options_flow"       -> options_flow(context)]

\* lines 188-203: the strategies map
RunStrategies(toggles, bars, context) ==
    [s \in {n \in StrategyNames : toggles[n]} |->
        CASE s = "vwap_ema_trend"     -> vwap_ema_trend(bars)
          [] s = "breakout"           -> breakout(bars)
          [] s = "mean_reversion"     -> mean_reversion(bars)
          [] s = "expected_move_fade" -> expected_move_fade(context)
          [] s = "orb"                -> orb(bars)
          [] s = "gamma_scalping"     -> gamma_scalping(context)
          [] s = "options_flow"       -> options_flow(context)]

RECURSIVE SumOver(_, _)
SumOver(S, f) ==
    IF S = {} THEN 0
    ELSE LET x == CHOOSE y \in S : TRUE
         IN  f[x] + SumOver(S \ {x}, f)

\* weights.get(s, 1.0), in hundredths
WeightOf(weights, s) == IF s \in DOMAIN weights THEN weights[s] ELSE 100

\* lines 208-210: the weighted score, in 1/ScoreUnit
WeightedScore(signals, weights) ==
    LET names    == DOMAIN signals
        total    == SumOver(names, [s \in names |-> signals[s] * WeightOf(weights, s)])
        n_active == SumOver(names, [s \in names |-> Abs(signals[s])])
    IN  (total * (ScoreUnit \div 100)) \div Max(n_active, 1)

----------------------------------------------------------------------------
(* ml_model.ml_predict: None is <<>>, a probability p percent is <<p>> *)

\* model is what joblib finds at MODEL_PATH: no file, a model whose
\* prediction raises, or a model that answers p
ml_predict(model, data) ==
    IF model.kind = "absent" THEN <<>>
    ELSE IF data.bars = <<>> THEN <<>>
    ELSE IF model.kind = "broken" THEN <<>>
    ELSE <<model.p>>

----------------------------------------------------------------------------
(* signals.generate_signals *)

\* line 181: _last_signal_time.get(symbol, 0)
LastTime(lst, symbol) == IF symbol \in DOMAIN lst THEN lst[symbol] ELSE 0

InCooldownHalved(lst, symbol, t) == t - LastTime(lst, symbol) < SIGNAL_COOLDOWN_SEC \div 2
\* line 182
InCooldown(lst, symbol, t) == t - LastTime(lst, symbol) < SIGNAL_COOLDOWN_SEC

MlRejectsNone(ml_prob) ==
    ml_prob = <<>> \/ ml_prob[1] * CONFIDENCE_CUTOFF_DEN < CONFIDENCE_CUTOFF_NUM * 100

\* line 215
MlRejects(ml_prob) ==
    ml_prob # <<>> /\ ml_prob[1] * CONFIDENCE_CUTOFF_DEN < CONFIDENCE_CUTOFF_NUM * 100

Sign(x) == IF x > 0 THEN 1 ELSE IF x < 0 THEN -1 ELSE 0

\* line 224: _last_signal_time[symbol] = now
SetLastTime(lst, symbol, t) ==
    [k \in DOMAIN lst \cup {symbol} |-> IF k = symbol THEN t ELSE lst[k]]

\* generate_signals: the dict returned, _last_signal_time after the call, the
\* strategies that were invoked and whether ml_predict was
generate_signals(lst, symbol, data, weights, toggles, model, t) ==
    IF InCooldown(lst, symbol, t)
    THEN [result    |-> [signal |-> 0, score |-> 0, strategies |-> <<>>],
          lst       |-> lst,
          invoked   |-> {},
          ml_called |-> FALSE]
    ELSE LET signals == RunStrategies(toggles, data.bars, data.context)
             score   == WeightedScore(signals, weights)
             ml_prob == ml_predict(model, data)
             signal  == IF MlRejects(ml_prob) THEN 0 ELSE Sign(score)
         IN  [result    |-> [signal |-> signal, score |-> score, strategies |-> signals],
              lst       |-> SetLastTime(lst, symbol, t),
              invoked   |-> DOMAIN signals,
              ml_called |-> TRUE]

----------------------------------------------------------------------------
(* Inputs *)

T0 == 1000 * 1000        \* time.time() when the program starts

BarsNamed ==
    [empty |-> <<>>,
     short |-> RangeBars(3, Dollars(100), Dollars(1)),
     flat  |-> FlatBars(ATR_PERIOD, Dollars(100)),
     range |-> RangeBars(ATR_PERIOD + 1, Dollars(100), Dollars(1))]

BarNames == DOMAIN BarsNamed

Entries == {Dollars(-100), 0, Dollars(100)}

Confidences == {-ScoreUnit, ScoreUnit \div 2, ScoreUnit}

PnlValues == {Dollars(-400), Dollars(400)}

ExitPrices ==
    {HalfDollars(h) : h \in {-204, -200, -198, 0, 195, 196, 198, 200, 202, 203,
                             204, 206, 208, 212}}

IdleSignals ==
    /\ last_signal_time = <<>>
    /\ sig = [op |-> "init"]

IdleBacktest == bt = [phase |-> "idle"]

IdleMain == mn = [phase |-> "idle"]

IdleOptimizer == opt = [phase |-> "idle"]

----------------------------------------------------------------------------
(* The Account and plan_trade under any caller: SpecPlan *)

InitPlan ==
    /\ today = 0
    /\ account = NewAccount(0)
    /\ now = T0
    /\ trade = NoTrade
    /\ ret = [op |-> "init"]
    /\ IdleSignals
    /\ IdleBacktest
    /\ IdleMain
    /\ IdleOptimizer

DateAdvance ==
    /\ today < MaxDay
    /\ today' = today + 1
    /\ ret' = [op |-> "clock"]
    /\ UNCHANGED <<account, now, trade, last_signal_time, sig, bt, mn, opt>>

CallCanTrade ==
    /\ account' = can_trade(account, today).account
    /\ ret' = [op |-> "can_trade", result |-> can_trade(account, today).result]
    /\ UNCHANGED <<today, now, trade, last_signal_time, sig, bt, mn, opt>>

CallUpdatePnl ==
    \E pnl \in PnlValues :
        /\ account.trades_today < MAX_TRADES_PER_DAY + MaxExtraTrades
        /\ account' = update_pnl(account, pnl)
        /\ ret' = [op |-> "update_pnl", pnl |-> pnl]
        /\ UNCHANGED <<today, now, trade, last_signal_time, sig, bt, mn, opt>>

CallPlanTrade ==
    \E entry \in Entries, b \in BarNames, confidence \in Confidences :
        \E r \in {plan_trade(account, entry, BarsNamed[b], confidence, today, now)} :
            /\ account' = r.account
            /\ ret' = [op |-> "plan_trade", entry |-> entry, bars |-> b,
                       confidence |-> confidence, trade |-> r.trade]
            /\ UNCHANGED <<today, now, trade, last_signal_time, sig, bt, mn, opt>>

NextPlan == DateAdvance \/ CallCanTrade \/ CallUpdatePnl \/ CallPlanTrade

SpecPlan == InitPlan /\ [][NextPlan]_vars

----------------------------------------------------------------------------
(* One Account over a date change, with what happened on the date: SpecDay *)
(*                                                                         *)
(* The callers of the Account plan a trade (plan_trade, whose first step   *)
(* is can_trade), check the guardrails (main.py line 86) and settle an     *)
(* open trade (update_pnl, main.py line 121).  mn keeps what the calls of  *)
(* the current date were.                                                  *)

InitDay ==
    /\ today = 0
    /\ account = NewAccount(0)
    /\ now = T0
    /\ trade = NoTrade
    /\ ret = [op |-> "init"]
    /\ IdleSignals
    /\ IdleBacktest
    /\ IdleOptimizer
    /\ mn = [phase      |-> "day",
             planned    |-> 0,      \* valid trades plan_trade returned on this date
             open       |-> 0,      \* trades planned and not settled
             overlapped |-> FALSE,  \* a trade was planned while another was open
             day_sum    |-> 0,      \* the PnL of the update_pnl calls of this date
             day_calls  |-> 0,      \* the number of those calls
             early      |-> FALSE,  \* one of them came before the date's first can_trade
             last       |-> "init"]

\* date.today() moves to the next date
DayAdvance ==
    /\ mn.phase = "day"
    /\ today < MaxDay
    /\ today' = today + 1
    /\ mn' = [mn EXCEPT !.planned = 0, !.day_sum = 0, !.day_calls = 0,
                        !.early = FALSE, !.last = "clock"]
    /\ UNCHANGED <<account, now, trade, ret, last_signal_time, sig, bt, opt>>

\* main.py line 86: account.can_trade()
DayCanTrade ==
    /\ mn.phase = "day"
    /\ account' = can_trade(account, today).account
    /\ mn' = [mn EXCEPT !.last = "can_trade"]
    /\ UNCHANGED <<today, now, trade, ret, last_signal_time, sig, bt, opt>>

\* main.py line 90: plan_trade, and lines 91-93 for a valid trade
DayPlanTrade ==
    \E confidence \in Confidences :
        \E r \in {plan_trade(account, Dollars(100), BarsNamed["flat"], confidence,
                              today, now)} :
            /\ mn.phase = "day"
            /\ mn.planned < MAX_TRADES_PER_DAY + MaxExtraTrades
            /\ account' = r.account
            /\ mn' = IF r.trade.valid
                     THEN [mn EXCEPT !.planned = @ + 1,
                                     !.open = @ + 1,
                                     !.overlapped = @ \/ mn.open > 0,
                                     !.last = "plan_trade"]
                     ELSE [mn EXCEPT !.last = "plan_trade"]
            /\ UNCHANGED <<today, now, trade, ret, last_signal_time, sig, bt, opt>>

\* main.py line 121: account.update_pnl(pnl) for an open trade that exits
DayUpdatePnl ==
    \E pnl \in PnlValues :
        /\ mn.phase = "day"
        /\ mn.open > 0
        /\ account' = update_pnl(account, pnl)
        /\ mn' = [mn EXCEPT !.open = @ - 1,
                            !.day_sum = @ + pnl,
                            !.day_calls = @ + 1,
                            !.early = @ \/ account.last_reset # today,
                            !.last = "update_pnl"]
        /\ UNCHANGED <<today, now, trade, ret, last_signal_time, sig, bt, opt>>

NextDay == DayAdvance \/ DayCanTrade \/ DayPlanTrade \/ DayUpdatePnl

SpecDay == InitDay /\ [][NextDay]_vars

----------------------------------------------------------------------------
(* plan_trade on accounts of several sizes: SpecSizing *)

\* Account(starting_equity): the account of spec.md's sizing scenario, of
\* config.STARTING_EQUITY and of the default
AccountWith(equity, d) == [NewAccount(d) EXCEPT !.equity = equity]

SizingEquities == {Dollars(10000), Dollars(12508), Dollars(DEFAULT_EQUITY)}

SizingEntries ==
    {Dollars(-100), 0, Dollars(2), Dollars(100), Dollars(200), Dollars(600)}

InitSizing ==
    /\ today = 0
    /\ \E equity \in SizingEquities : account = AccountWith(equity, 0)
    /\ now = T0
    /\ trade = NoTrade
    /\ ret = [op |-> "init"]
    /\ IdleSignals
    /\ IdleBacktest
    /\ IdleMain
    /\ IdleOptimizer

CallPlanTradeSized ==
    \E entry \in SizingEntries, b \in BarNames, confidence \in Confidences :
        \E r \in {plan_trade(account, entry, BarsNamed[b], confidence, today, now)} :
            /\ account' = r.account
            /\ ret' = [op |-> "plan_trade", entry |-> entry, bars |-> b,
                       confidence |-> confidence, equity |-> account.equity,
                       trade |-> r.trade]
            /\ UNCHANGED <<today, now, trade, last_signal_time, sig, bt, mn, opt>>

NextSizing == CallPlanTradeSized

SpecSizing == InitSizing /\ [][NextSizing]_vars

----------------------------------------------------------------------------
(* One trade and the ticks check_exit sees: SpecExit *)

\* spec.md, end-to-end scenario 3: long at 100 with stop 98 and target 104
ScenarioTrade(t) ==
    [valid |-> TRUE, entry |-> Dollars(100), stop |-> Dollars(98),
     target |-> Dollars(104), size |-> 1, confidence |-> ScoreUnit,
     outcome |-> "OPEN", pnl |-> 0, trailing_stop |-> Dollars(98),
     entry_time |-> t]

InitExit == InitPlan

OpenTrade ==
    \E entry \in Entries, b \in BarNames, confidence \in Confidences :
        \E r \in {plan_trade(account, entry, BarsNamed[b], confidence, today, now)} :
            /\ r.trade.valid
            /\ trade' = r.trade
            /\ account' = r.account
            /\ ret' = [op |-> "plan_trade"]
            /\ UNCHANGED <<today, now, last_signal_time, sig, bt, mn, opt>>

OpenScenarioTrade ==
    /\ trade' = ScenarioTrade(now)
    /\ ret' = [op |-> "scenario"]
    /\ UNCHANGED <<account, today, now, last_signal_time, sig, bt, mn, opt>>

HalfHour ==
    /\ now < T0 + MaxHalfHours * 1800
    /\ now' = now + 1800
    /\ ret' = [op |-> "clock"]
    /\ UNCHANGED <<account, today, trade, last_signal_time, sig, bt, mn, opt>>

CallCheckExit ==
    \E price \in ExitPrices :
        \E r \in {check_exit(trade, price, now)} :
            /\ trade.valid
            /\ trade' = r.trade
            /\ ret' = [op |-> "check_exit", price |-> price, outcome |-> r.outcome]
            /\ UNCHANGED <<account, today, now, last_signal_time, sig, bt, mn, opt>>

NextExit == OpenTrade \/ OpenScenarioTrade \/ HalfHour \/ CallCheckExit

SpecExit == InitExit /\ [][NextExit]_vars

----------------------------------------------------------------------------
(* The signal aggregator under any caller: SpecSignals *)

MaxMinutes == 3      \* the signal clock runs MaxMinutes steps of 60 s

Symbols == {"SPY", "QQQ"}

\* n rows whose close starts at p and moves by step each row, range r
Ramp(n, p, step, r) ==
    [i \in 1..n |-> Row(p + (i - 1) * step + r, p + (i - 1) * step - r,
                        p + (i - 1) * step, 10)]

RallyBars == Ramp(ORB_MIN_BARS, Dollars(100), HalfDollars(1), Dollars(1))
SlumpBars == Ramp(ORB_MIN_BARS, Dollars(100), HalfDollars(-1), Dollars(1))

LastClose(bars) == bars[Len(bars)].close

\* data = {"bars": ..., "context": {...}}
DataNamed ==
    [empty |-> [bars |-> <<>>, context |-> <<>>],
     quiet |-> [bars |-> FlatBars(ORB_MIN_BARS, Dollars(100)),
                context |-> [price |-> Dollars(100)]],
     rally |-> [bars |-> RallyBars,
                context |-> [price |-> LastClose(RallyBars), flow_score |-> 80]],
     slump |-> [bars |-> SlumpBars,
                context |-> [price |-> LastClose(SlumpBars), flow_score |-> -80]],
     split |-> [bars |-> RallyBars,
                context |-> [price |-> LastClose(RallyBars), flow_score |-> -80,
                             gamma_exposure |-> 2 * GEX_LIMIT]],
     fade  |-> [bars |-> RallyBars,
                context |-> [price |-> LastClose(RallyBars),
                             expected_move |-> Dollars(5)]],
     unfiltered |-> [bars |-> RallyBars,
                     context |-> [price |-> LastClose(RallyBars), flow_score |-> 80,
                                  disable_ml |-> TRUE],
                     disable_ml |-> TRUE]]

\* the flag run_backtest passes at line 142, in the data dict or in its context
DisableMl(data) ==
    \/ "disable_ml" \in DOMAIN data /\ data.disable_ml
    \/ "disable_ml" \in DOMAIN data.context /\ data.context.disable_ml

DataNames == DOMAIN DataNamed

\* weights, in hundredths; a missing name reads as 1.0
WeightsNamed ==
    [default |-> <<>>,
     tilted  |-> [s \in StrategyNames |-> IF s = "options_flow" THEN 300 ELSE 100]]

WeightNames == DOMAIN WeightsNamed

Models ==
    {[kind |-> "absent"], [kind |-> "broken"]}
        \cup {[kind |-> "model", p |-> p] : p \in {64, 65}}

\* main.handle_data line 86: signal.get("blocked")
Blocked(signal) == IF "blocked" \in DOMAIN signal THEN signal.blocked ELSE FALSE

\* main.handle_data lines 86-91: whether the tick plans a valid trade from
\* this signal dict (entry is context["price"], confidence is signal["score"])
PlansTrade(signal, a, data, d, t) ==
    /\ ~Blocked(signal)
    /\ can_trade(a, d).result
    /\ "price" \in DOMAIN data.context
    /\ plan_trade(can_trade(a, d).account, data.context.price, data.bars,
                  signal.score, d, t).trade.valid

InitSignals ==
    /\ today = 0
    /\ account = NewAccount(0)
    /\ now = T0
    /\ trade = NoTrade
    /\ ret = [op |-> "init"]
    /\ last_signal_time = <<>>
    /\ sig = [op |-> "init"]
    /\ IdleBacktest
    /\ IdleMain
    /\ IdleOptimizer

Minute ==
    /\ now < T0 + MaxMinutes * 60
    /\ now' = now + 60
    /\ sig' = [op |-> "clock"]
    /\ UNCHANGED <<account, today, trade, ret, last_signal_time, bt, mn, opt>>

CallGenerateSignals ==
    \E symbol \in Symbols, dn \in DataNames, wn \in WeightNames, model \in Models :
        \E r \in {generate_signals(last_signal_time, symbol, DataNamed[dn],
                                   WeightsNamed[wn], STRATEGY_TOGGLES, model, now)} :
            /\ last_signal_time' = r.lst
            /\ sig' = [op |-> "generate_signals", symbol |-> symbol, data |-> dn,
                       weights |-> wn, model |-> model,
                       before |-> last_signal_time,
                       ml_prob |-> IF r.ml_called THEN ml_predict(model, DataNamed[dn])
                                   ELSE <<>>,
                       result |-> r.result, invoked |-> r.invoked,
                       ml_called |-> r.ml_called]
            /\ UNCHANGED <<account, today, now, trade, ret, bt, mn, opt>>

NextSignals == Minute \/ CallGenerateSignals

SpecSignals == InitSignals /\ [][NextSignals]_vars

----------------------------------------------------------------------------
(* generate_signals under other settings of config.STRATEGY_TOGGLES:       *)
(* SpecToggles                                                             *)

NoToggles == [s \in StrategyNames |-> FALSE]

ToggleSets ==
    {STRATEGY_TOGGLES, NoToggles, [s \in StrategyNames |-> s = "options_flow"]}

InitToggles == InitSignals

CallWithToggles ==
    \E toggles \in ToggleSets, dn \in DataNames, wn \in WeightNames, model \in Models :
        \E r \in {generate_signals(last_signal_time, "SPY", DataNamed[dn],
                                   WeightsNamed[wn], toggles, model, now)} :
            /\ last_signal_time' = r.lst
            /\ sig' = [op |-> "generate_signals", symbol |-> "SPY", data |-> dn,
                       weights |-> wn, model |-> model, toggles |-> toggles,
                       before |-> last_signal_time,
                       result |-> r.result, invoked |-> r.invoked,
                       ml_called |-> r.ml_called]
            /\ UNCHANGED <<account, today, now, trade, ret, bt, mn, opt>>

NextToggles == Minute \/ CallWithToggles

SpecToggles == InitToggles /\ [][NextToggles]_vars

----------------------------------------------------------------------------
(* main.py: the data-handler thread against the manual-exit callback:      *)
(* SpecMain                                                                *)
(*                                                                         *)
(* main() starts data_loop, which calls handle_data, in a daemon thread    *)
(* and runs the GUI, whose button calls on_manual_exit, in the main        *)
(* thread.  No lock guards active_trades, the journal or the Account, so   *)
(* the threads interleave between statements.  Each action below is one    *)
(* run of statements of one thread.                                        *)
(*                                                                         *)
(* As written, handle_data never holds a trade: generate_signals(bars,     *)
(* context) at line 84 lacks the weights argument and line 92 reads        *)
(* signal["signals"], and both raise into the handler of line 159.  As in  *)
(* run_backtest, the model binds every argument to the parameter it is     *)
(* meant for, so that trades are opened and monitored.                     *)

\* the data a tick delivers: bars and the context built from them
TickData == {"quiet", "rally", "slump"}

\* the keys of a dict in insertion order, for ids handed out in order
RECURSIVE Items(_)
Items(S) ==
    IF S = {} THEN <<>>
    ELSE <<SetMin(S)>> \o Items(S \ {SetMin(S)})

\* risk_ext.calc_var against 5% of equity: the 5% quantile of 10000 draws of
\* N(0, 0.02) lies near 3.3% of equity, so the switch trips when equity is
\* not positive
VarExceeded(equity) == equity <= 0

\* line 136, as the sample decides it: calc_var draws its 10000 returns from
\* np.random.normal on every call, so for a positive equity the comparison
\* is true only for a sample whose 5% quantile lies below -5%, and for an
\* equity that is not positive it is true for every sample
VarTrips(equity) == IF VarExceeded(equity) THEN {TRUE} ELSE BOOLEAN

\* lines 113-117
ExitPnl(t, price) == (price - t.entry) * t.size * Direction(t)

NewMain ==
    [phase   |-> "run",
     trades  |-> <<>>,      \* the trade dicts, by id
     active  |-> {},        \* the keys of active_trades
     journal |-> <<>>,      \* by id, the outcomes update_trade_outcome wrote
     settled |-> <<>>,      \* by id, the update_pnl calls made for the trade
     late    |-> {},        \* ids evaluated or settled after an outcome was written
     halted  |-> {},        \* ids active_trades.clear() removed
     h       |-> [pc |-> "idle"],
     m       |-> [pc |-> "idle"]]

InitMain ==
    /\ today = 0
    /\ account = NewAccount(0)
    /\ now = T0
    /\ trade = NoTrade
    /\ ret = [op |-> "init"]
    /\ IdleSignals
    /\ IdleBacktest
    /\ IdleOptimizer
    /\ mn = NewMain

\* handle_data lines 65-108: signal, guardrails, plan_trade, the new entry
HandleEntry ==
    \E dn \in TickData :
        \E g \in {generate_signals(last_signal_time, "SPY", DataNamed[dn], <<>>,
                                   STRATEGY_TOGGLES, [kind |-> "absent"], now)} :
        \E p \in {IF Blocked(g.result) \/ ~can_trade(account, today).result
                   THEN [account |-> IF Blocked(g.result) THEN account
                                     ELSE can_trade(account, today).account,
                         trade   |-> NoTrade]
                   ELSE plan_trade(can_trade(account, today).account,
                                   DataNamed[dn].context.price, DataNamed[dn].bars,
                                   g.result.score, today, now)} :
            /\ mn.phase = "run" /\ mn.h.pc = "idle"
            /\ last_signal_time' = g.lst
            /\ account' = p.account
            /\ mn' = IF p.trade.valid
                     THEN [mn EXCEPT !.trades  = Append(@, p.trade),
                                     !.active  = @ \cup {Len(mn.trades) + 1},
                                     !.journal = Append(@, <<>>),
                                     !.settled = Append(@, 0),
                                     !.h = [pc |-> "monitor",
                                            price |-> DataNamed[dn].context.price]]
                     ELSE [mn EXCEPT !.h = [pc |-> "monitor",
                                            price |-> DataNamed[dn].context.price]]
            /\ UNCHANGED <<today, now, trade, ret, sig, bt, opt>>

\* line 110: list(active_trades.items())
HandleSnapshot ==
    /\ mn.phase = "run" /\ mn.h.pc = "monitor"
    /\ mn' = [mn EXCEPT !.h = [pc |-> "check", price |-> mn.h.price,
                                todo |-> Items(mn.active)]]
    /\ UNCHANGED <<account, today, now, trade, ret, last_signal_time, sig, bt, opt>>

\* lines 111-112: check_exit on the next trade of the snapshot
HandleCheckExit ==
    /\ mn.phase = "run" /\ mn.h.pc = "check" /\ mn.h.todo # <<>>
    /\ \E id \in {Head(mn.h.todo)} :
       \E r \in {check_exit(mn.trades[id], mn.h.price, now)} :
           mn' = [mn EXCEPT
                    !.trades[id] = r.trade,
                    !.late = IF mn.journal[id] # <<>> THEN @ \cup {id} ELSE @,
                    !.h = IF r.outcome = "None"
                          THEN [@ EXCEPT !.todo = Tail(@)]
                          ELSE [pc |-> "settle", price |-> mn.h.price,
                                todo |-> mn.h.todo, outcome |-> r.outcome]]
    /\ UNCHANGED <<account, today, now, trade, ret, last_signal_time, sig, bt, opt>>

\* lines 113-119: the PnL, the trade's outcome, account.update_pnl
HandleSettle ==
    /\ mn.phase = "run" /\ mn.h.pc = "settle"
    /\ \E id \in {Head(mn.h.todo)} :
       \E pnl \in {ExitPnl(mn.trades[id], mn.h.price)} :
           /\ account' = update_pnl(account, pnl)
           /\ mn' = [mn EXCEPT
                       !.trades[id] = [@ EXCEPT !.pnl = pnl, !.outcome = mn.h.outcome],
                       !.settled[id] = @ + 1,
                       !.late = IF mn.journal[id] # <<>> THEN @ \cup {id} ELSE @,
                       !.h = [@ EXCEPT !.pc = "journal"]]
    /\ UNCHANGED <<today, now, trade, ret, last_signal_time, sig, bt, opt>>

\* lines 120-121: update_trade_outcome, alert_exit
HandleJournal ==
    /\ mn.phase = "run" /\ mn.h.pc = "journal"
    /\ mn' = [mn EXCEPT !.journal[Head(mn.h.todo)] = Append(@, mn.h.outcome),
                        !.h = [@ EXCEPT !.pc = "pop"]]
    /\ UNCHANGED <<account, today, now, trade, ret, last_signal_time, sig, bt, opt>>

\* lines 124-127: closed_trades, close_trade, active_trades.pop
HandlePop ==
    /\ mn.phase = "run" /\ mn.h.pc = "pop"
    /\ mn' = [mn EXCEPT !.active = @ \ {Head(mn.h.todo)},
                        !.h = [pc |-> "check", price |-> mn.h.price,
                               todo |-> Tail(mn.h.todo)]]
    /\ UNCHANGED <<account, today, now, trade, ret, last_signal_time, sig, bt, opt>>

\* lines 135-157: the kill switch and the GUI panels end the tick
HandleKillSwitch ==
    /\ mn.phase = "run" /\ mn.h.pc = "check" /\ mn.h.todo = <<>>
    /\ \E trip \in VarTrips(account.equity) :
          mn' = [mn EXCEPT !.active = IF trip THEN {} ELSE @,
                           !.halted = IF trip THEN @ \cup mn.active ELSE @,
                           !.h = [pc |-> "idle"]]
    /\ UNCHANGED <<account, today, now, trade, ret, last_signal_time, sig, bt, opt>>

\* on_manual_exit line 53: list(active_trades.items())
ManualSnapshot ==
    /\ mn.phase = "run" /\ mn.m.pc = "idle" /\ mn.active # {}
    /\ mn' = [mn EXCEPT !.m = [pc |-> "exit", todo |-> Items(mn.active)]]
    /\ UNCHANGED <<account, today, now, trade, ret, last_signal_time, sig, bt, opt>>

\* lines 54-58: update_trade_outcome(trade_id, "MANUAL_EXIT", 0), alert_exit
ManualJournal ==
    /\ mn.phase = "run" /\ mn.m.pc = "exit"
    /\ mn' = [mn EXCEPT !.journal[Head(mn.m.todo)] = Append(@, "MANUAL_EXIT"),
                        !.m = [@ EXCEPT !.pc = "pop"]]
    /\ UNCHANGED <<account, today, now, trade, ret, last_signal_time, sig, bt, opt>>

\* line 59: active_trades.pop(trade_id, None), then the next trade
ManualPop ==
    /\ mn.phase = "run" /\ mn.m.pc = "pop"
    /\ mn' = [mn EXCEPT !.active = @ \ {Head(mn.m.todo)},
                        !.m = IF Tail(mn.m.todo) = <<>> THEN [pc |-> "idle"]
                              ELSE [pc |-> "exit", todo |-> Tail(mn.m.todo)]]
    /\ UNCHANGED <<account, today, now, trade, ret, last_signal_time, sig, bt, opt>>

NextMain ==
    \/ Minute
    \/ HandleEntry \/ HandleSnapshot \/ HandleCheckExit \/ HandleSettle
    \/ HandleJournal \/ HandlePop \/ HandleKillSwitch
    \/ ManualSnapshot \/ ManualJournal \/ ManualPop

SpecMain == InitMain /\ [][NextMain]_vars

----------------------------------------------------------------------------
(* strategy_optimizer.update_weights over the journal directory:           *)
(* SpecOptimizer                                                           *)
(*                                                                         *)
(* A weight of 1.0 is WeightUnit; PnL and expectancy are in dollars, and   *)
(* an expectancy of one dollar counts as a weight of 1.0, as in line 80.   *)
(* The directory holds the daily trade files (one line per trade, written  *)
(* by journal.save_trade and rewritten by update_trade_outcome), the       *)
(* lifecycle files (one line per trade closed by performance.close_trade)  *)
(* and, once saved, strategy_weights.json.                                 *)

OPTIMIZER_MIN_TRADES == 10          \* config.OPTIMIZER_MIN_TRADES
EXPECTANCY_SMOOTHING_NUM == 1       \* config.EXPECTANCY_SMOOTHING = 0.2 = 1/5
EXPECTANCY_SMOOTHING_DEN == 5
WEIGHT_CAP == 3                     \* line 81: max(min(new_val, 3.0), -3.0)
SMALL_SAMPLE == 10                  \* calculate_expectancy: len(trades) < 10

WeightUnit == 4 * 625

MaxUpdates == 2      \* update_weights is called at most MaxUpdates times
MaxCrashes == 2      \* the process is killed at most MaxCrashes times

\* the journal holds at most as many trades as the optimizer asks for
MaxJournal == OPTIMIZER_MIN_TRADES

\* the records of the trade files: strategy and PnL in dollars ("outcome" is
\* a key of every record, save_trade writes it as "OPEN")
JournalKinds ==
    {[strategy |-> "breakout", pnl |-> 5,  closed |-> TRUE],
     [strategy |-> "breakout", pnl |-> -5, closed |-> TRUE],
     [strategy |-> "breakout", pnl |-> 0,  closed |-> FALSE]}

\* strategy_optimizer lines 19-27
DefaultWeights == [s \in StrategyNames |-> WeightUnit]

\* what a file holds: a JSON object of weights, or text that is no JSON
\* object (a truncated dump, a list, anything else)
FileDict(weights) == [kind |-> "dict", data |-> weights]
FileGarbage == [kind |-> "garbage"]

\* json.dump(_strategy_weights, f, indent=2): the braces and one line a key
FileLines(content) ==
    IF content.kind = "dict" THEN Cardinality(DOMAIN content.data) + 2 ELSE 1

RECURSIVE SumKinds(_, _, _)
SumKinds(journal, kinds, f) ==
    IF kinds = {} THEN 0
    ELSE LET k == CHOOSE x \in kinds : TRUE
         IN  journal[k] * f[k] + SumKinds(journal, kinds \ {k}, f)

\* the number of lines of the trade files
TradeLines(journal) == SumKinds(journal, DOMAIN journal, [k \in DOMAIN journal |-> 1])

\* the expectancy with every sample scaled by len/10
ExpectancyAlwaysScaled(journal, strategy) ==
    LET mine == {k \in DOMAIN journal : strategy = "all" \/ k.strategy = strategy}
        won  == SumKinds(journal, mine, [k \in mine |-> IF k.pnl > 0 THEN k.pnl ELSE 0])
        lost == SumKinds(journal, mine, [k \in mine |-> IF k.pnl <= 0 THEN -k.pnl ELSE 0])
    IN  ((won - lost) * WeightUnit) \div SMALL_SAMPLE

\* journal.calculate_expectancy, in WeightUnit: win_rate * avg_win
\* - (1 - win_rate) * avg_loss, scaled by len/10 below ten trades
calculate_expectancy(journal, strategy) ==
    LET mine   == {k \in DOMAIN journal : strategy = "all" \/ k.strategy = strategy}
        n      == SumKinds(journal, mine, [k \in mine |-> 1])
        n_win  == SumKinds(journal, mine, [k \in mine |-> IF k.pnl > 0 THEN 1 ELSE 0])
        n_loss == n - n_win
        wins   == SumKinds(journal, mine, [k \in mine |-> IF k.pnl > 0 THEN k.pnl ELSE 0])
        losses == SumKinds(journal, mine, [k \in mine |-> IF k.pnl <= 0 THEN k.pnl ELSE 0])
        \* win_rate * avg_win = (n_win / n) * (wins / n_win), times n
        won    == IF n_win > 0 THEN wins ELSE 0
        \* (1 - win_rate) * avg_loss = (n_loss / n) * abs(losses / n_loss), times n;
        \* avg_loss is 1 without losses, and then 1 - win_rate is 0
        lost   == IF n_loss > 0 THEN Abs(losses) ELSE 0
    IN  IF n = 0 THEN 0
        ELSE IF n < SMALL_SAMPLE
             THEN ((won - lost) * WeightUnit) \div SMALL_SAMPLE
             ELSE ((won - lost) * WeightUnit) \div n

\* lines 76-81
Updated(weights, journal) ==
    [s \in DOMAIN weights |->
        LET exp     == calculate_expectancy(journal, s)
            new_val == (EXPECTANCY_SMOOTHING_NUM * exp
                          + (EXPECTANCY_SMOOTHING_DEN - EXPECTANCY_SMOOTHING_NUM) * weights[s])
                         \div EXPECTANCY_SMOOTHING_DEN
        IN  IF exp # 0
            THEN Max(Min(new_val, WEIGHT_CAP * WeightUnit), -WEIGHT_CAP * WeightUnit)
            ELSE weights[s]]

\* lines 86-95: the lines of every file of JOURNAL_DIR
TradeCount(journal, lifecycle, file) ==
    TradeLines(journal) + lifecycle + (IF file = <<>> THEN 0 ELSE FileLines(file[1]))

\* update_weights: the weights and the weights file after the call
update_weights(weights, file, journal, lifecycle) ==
    IF TradeCount(journal, lifecycle, file) >= OPTIMIZER_MIN_TRADES
    THEN [weights |-> Updated(weights, journal),
          file    |-> <<FileDict(Updated(weights, journal))>>]
    ELSE [weights |-> weights, file |-> file]

InitOptimizer ==
    /\ today = 0
    /\ account = NewAccount(0)
    /\ now = T0
    /\ trade = NoTrade
    /\ ret = [op |-> "init"]
    /\ IdleSignals
    /\ IdleBacktest
    /\ IdleMain
    /\ opt = [phase     |-> "run",
              weights   |-> DefaultWeights,
              file      |-> <<>>,
              journal   |-> [k \in JournalKinds |-> 0],
              lifecycle |-> 0,
              calls     |-> 0,
              last      |-> [op |-> "init"]]

\* a trade reaches the journal: save_trade, then update_trade_outcome, and
\* for a trade the data handler closed, close_trade's lifecycle line
JournalTrade ==
    \E k \in JournalKinds :
        /\ opt.phase = "run"
        /\ TradeLines(opt.journal) < MaxJournal
        /\ opt' = [opt EXCEPT !.journal[k] = @ + 1,
                              !.lifecycle = IF k.closed THEN @ + 1 ELSE @,
                              !.last = [op |-> "journal"]]
        /\ UNCHANGED <<account, today, now, trade, ret, last_signal_time, sig, bt, mn>>

CallUpdateWeights ==
    /\ opt.phase = "run"
    /\ opt.calls < MaxUpdates
    /\ \E r \in {update_weights(opt.weights, opt.file, opt.journal, opt.lifecycle)} :
           opt' = [opt EXCEPT !.weights = r.weights,
                              !.file = r.file,
                              !.calls = @ + 1,
                              !.last = [op |-> "update_weights",
                                        weights |-> opt.weights,
                                        file |-> opt.file,
                                        trades |-> TradeLines(opt.journal),
                                        applied |-> TradeCount(opt.journal, opt.lifecycle,
                                                               opt.file)
                                                        >= OPTIMIZER_MIN_TRADES]]
    /\ UNCHANGED <<account, today, now, trade, ret, last_signal_time, sig, bt, mn>>

NextOptimizer == JournalTrade \/ CallUpdateWeights

SpecOptimizer == InitOptimizer /\ [][NextOptimizer]_vars

----------------------------------------------------------------------------
(* main.handle_data, one whole tick per step, without the GUI thread:      *)
(* SpecTick                                                                *)
(*                                                                         *)
(* The body of handle_data is one try block (lines 68-157) whose handler   *)
(* (lines 159-163) logs and returns.  A tick either runs through, with the *)
(* calls bound by role as in SpecMain, or raises at the call of line 84,   *)
(* which as written passes two arguments to the three parameters of        *)
(* generate_signals.                                                       *)

MaxTicks == 3        \* handle_data is called at most MaxTicks times

\* lines 111-133: check_exit on every trade of list(active_trades.items()),
\* and for an outcome the PnL, update_pnl and active_trades.pop
RECURSIVE MonitorLoop(_, _, _, _)
MonitorLoop(todo, st, price, time) ==
    IF todo = <<>> THEN st
    ELSE LET id  == Head(todo)
             r   == check_exit(st.trades[id], price, time)
             pnl == ExitPnl(r.trade, price)
             st1 == [st EXCEPT !.trades[id] = r.trade, !.evals[id] = @ + 1]
             st2 == IF r.outcome = "None" THEN st1
                    ELSE [st1 EXCEPT
                            !.trades[id] = [@ EXCEPT !.pnl = pnl, !.outcome = r.outcome],
                            !.account = update_pnl(@, pnl),
                            !.active = @ \ {id}]
         IN  MonitorLoop(Tail(todo), st2, price, time)

InitTick ==
    /\ today = 0
    /\ account = NewAccount(0)
    /\ now = T0
    /\ trade = NoTrade
    /\ ret = [op |-> "init"]
    /\ IdleSignals
    /\ IdleBacktest
    /\ IdleOptimizer
    /\ mn = [phase  |-> "tick",
             trades |-> <<>>,      \* the trade dicts, by id
             active |-> {},        \* the keys of active_trades
             before |-> {},        \* the keys when the last tick began
             evals  |-> <<>>,      \* by id, the check_exit calls of the last tick
             ticks  |-> 0,
             last   |-> [op |-> "init"]]

\* a tick that runs through: lines 69-103 as in HandleEntry, the monitoring
\* loop, the kill switch
TickRuns ==
    \E dn \in TickData :
        \E g \in {generate_signals(last_signal_time, "SPY", DataNamed[dn], <<>>,
                                   STRATEGY_TOGGLES, [kind |-> "absent"], now)} :
        \E p \in {IF Blocked(g.result) \/ ~can_trade(account, today).result
                   THEN [account |-> IF Blocked(g.result) THEN account
                                     ELSE can_trade(account, today).account,
                         trade   |-> NoTrade]
                   ELSE plan_trade(can_trade(account, today).account,
                                   DataNamed[dn].context.price, DataNamed[dn].bars,
                                   g.result.score, today, now)} :
        \E trades \in {IF p.trade.valid THEN Append(mn.trades, p.trade) ELSE mn.trades} :
        \E active \in {IF p.trade.valid THEN mn.active \cup {Len(trades)} ELSE mn.active} :
        \E st \in {MonitorLoop(Items(active),
                                [trades |-> trades, active |-> active,
                                 account |-> p.account,
                                 evals |-> [i \in 1..Len(trades) |-> 0]],
                                DataNamed[dn].context.price, now)} :
        \E trip \in VarTrips(st.account.equity) :
            /\ mn.phase = "tick" /\ mn.ticks < MaxTicks
            /\ last_signal_time' = g.lst
            /\ account' = st.account
            /\ mn' = [mn EXCEPT !.trades = st.trades,
                                !.active = IF trip THEN {} ELSE st.active,
                                !.before = mn.active,
                                !.evals = st.evals,
                                !.ticks = @ + 1,
                                !.last = [op |-> "handle_data", data |-> dn,
                                          raised |-> FALSE]]
            /\ UNCHANGED <<today, now, trade, ret, sig, bt, opt>>

\* a tick whose line 84 raises: lines 159-163 log the error and the handler
\* returns
TickRaises ==
    /\ mn.phase = "tick" /\ mn.ticks < MaxTicks
    /\ \E dn \in TickData :
          mn' = [mn EXCEPT !.before = mn.active,
                           !.evals = [i \in 1..Len(mn.trades) |-> 0],
                           !.ticks = @ + 1,
                           !.last = [op |-> "handle_data", data |-> dn,
                                     raised |-> TRUE]]
    /\ UNCHANGED <<account, today, now, trade, ret, last_signal_time, sig, bt, opt>>

NextTick == Minute \/ TickRuns \/ TickRaises

SpecTick == InitTick /\ [][NextTick]_vars

----------------------------------------------------------------------------
(* signals.expected_move_fade on the context handle_data builds: SpecFade *)

FadePrices == {Dollars(d) : d \in {-10, -5, 0, 3, 5, 6, 94, 95, 96, 100, 104, 105, 106}}
FadeUnderlyings == {Dollars(d) : d \in {0, 100, 200}}
\* data["iv"]["expected_move"]: missing (None), 0 or five dollars
FadeMoves == {<<>>, <<0>>, <<Dollars(5)>>}

\* main.handle_data lines 74-81, the keys expected_move_fade can read
FadeContext(price, underlying, move) ==
    IF move = <<>>
    THEN [price |-> price, underlying_price |-> underlying]
    ELSE [price |-> price, underlying_price |-> underlying, expected_move |-> move[1]]

InitFade ==
    /\ today = 0
    /\ account = NewAccount(0)
    /\ now = T0
    /\ trade = NoTrade
    /\ ret = [op |-> "init"]
    /\ IdleSignals
    /\ IdleBacktest
    /\ IdleMain
    /\ \E price \in FadePrices, underlying \in FadeUnderlyings, move \in FadeMoves :
          opt = [phase   |-> "fade",
                 context |-> FadeContext(price, underlying, move),
                 last    |-> [op |-> "init"]]

CallExpectedMoveFade ==
    /\ opt.phase = "fade" /\ opt.last.op = "init"
    /\ opt' = [opt EXCEPT !.last = [op |-> "expected_move_fade",
                                    value |-> expected_move_fade(opt.context)]]
    /\ UNCHANGED <<account, today, now, trade, ret, last_signal_time, sig, bt, mn>>

NextFade == CallExpectedMoveFade

SpecFade == InitFade /\ [][NextFade]_vars

----------------------------------------------------------------------------
(* signals.breakout on its own: SpecBreakout *)

\* the prices of the rows
BreakoutLevels == {Dollars(d) : d \in 98..102}

\* the lengths of the windows: none, one row short of the lookback, the
\* lookback, one row more
BreakoutLengths == {0, LOOKBACK - 1, LOOKBACK, LOOKBACK + 1}

\* rows closing at 100 between 99 and 101, with an earlier row e at
\* position k and the current row c at the end
BreakoutWindow(n, k, e, c) ==
    [i \in 1..n |->
        IF i = n THEN c
        ELSE IF i = k THEN e
        ELSE Row(Dollars(101), Dollars(99), Dollars(100), 10)]

\* the earlier rows: as the others, a spike, a dip
EarlierRows ==
    {Row(Dollars(101), Dollars(99), Dollars(100), 10),
     Row(Dollars(104), Dollars(99), Dollars(100), 10),
     Row(Dollars(101), Dollars(96), Dollars(100), 10)}

InitBreakout ==
    /\ today = 0
    /\ account = NewAccount(0)
    /\ now = T0
    /\ trade = NoTrade
    /\ ret = [op |-> "init"]
    /\ IdleSignals
    /\ IdleBacktest
    /\ IdleMain
    /\ \E n \in BreakoutLengths, k \in {1, 2}, e \in EarlierRows,
          h \in BreakoutLevels, l \in BreakoutLevels, c \in BreakoutLevels :
          /\ l <= h
          /\ opt = [phase |-> "breakout",
                    bars  |-> BreakoutWindow(n, k, e, Row(h, l, c, 10)),
                    last  |-> [op |-> "init"]]

CallBreakout ==
    /\ opt.phase = "breakout" /\ opt.last.op = "init"
    /\ opt' = [opt EXCEPT !.last = [op |-> "breakout", value |-> breakout(opt.bars)]]
    /\ UNCHANGED <<account, today, now, trade, ret, last_signal_time, sig, bt, mn>>

NextBreakout == CallBreakout

SpecBreakout == InitBreakout /\ [][NextBreakout]_vars

----------------------------------------------------------------------------
(* The journal files under save_trade and update_trade_outcome:            *)
(* SpecJournal                                                             *)
(*                                                                         *)
(* save_trade appends one line to JOURNAL_DIR/<today>.txt in the data      *)
(* thread.  update_trade_outcome reads every line of <today>.txt, sets     *)
(* outcome and pnl on the record with the id, and puts the lines back      *)
(* with _atomic_write; on_manual_exit calls it from the GUI thread, so a   *)
(* save_trade can run between its read and its os.replace.  Both compute   *)
(* the file name from datetime.date.today() when they are called.          *)

MaxSaves == 2        \* save_trade is called at most MaxSaves times
MaxOutcomes == 2     \* update_trade_outcome is called at most MaxOutcomes times

\* the line save_trade writes for a trade from plan_trade
SavedRecord(id) == [id |-> id, outcome |-> "OPEN", pnl |-> 0]

\* the outcomes update_trade_outcome is called with: check_exit's from the
\* data thread (main.py line 122), MANUAL_EXIT from the GUI thread (line 54)
JournalOutcomes == {"STOP", "TARGET", "MANUAL_EXIT"}

CallerThread(outcome) == IF outcome = "MANUAL_EXIT" THEN "gui" ELSE "data"

\* the PnL the callers pass with an outcome, in dollars
OutcomePnl(outcome) ==
    CASE outcome = "TARGET" -> Dollars(10)
      [] outcome = "STOP" -> Dollars(-5)
      [] OTHER -> 0

\* update_trade_outcome lines 83-89: the lines read, with the outcome and
\* the PnL set on every record that has the id
Rewritten(lines, id, outcome, pnl) ==
    [k \in DOMAIN lines |->
        IF lines[k].id = id
        THEN [lines[k] EXCEPT !.outcome = outcome, !.pnl = pnl]
        ELSE lines[k]]

InitJournal ==
    /\ today = 0
    /\ account = NewAccount(0)
    /\ now = T0
    /\ trade = NoTrade
    /\ ret = [op |-> "init"]
    /\ IdleSignals
    /\ IdleBacktest
    /\ IdleMain
    /\ opt = [phase  |-> "journal",
              files  |-> [d \in 0..MaxDay |-> <<>>],  \* by date, the lines of <date>.txt
              saved  |-> <<>>,      \* by id, the date of the save_trade call
              raced  |-> {},        \* ids saved between the read and the replace of an update
              calls  |-> 0,
              upd    |-> [pc |-> "idle"],
              last   |-> [op |-> "init"]]

\* datetime.date.today() moves to the next date
JournalDateAdvance ==
    /\ opt.phase = "journal"
    /\ today < MaxDay
    /\ today' = today + 1
    /\ opt' = [opt EXCEPT !.last = [op |-> "clock"]]
    /\ UNCHANGED <<account, now, trade, ret, last_signal_time, sig, bt, mn>>

\* save_trade lines 40-55, called by the data thread (main.py line 96):
\* never inside an update_trade_outcome of the data thread
SaveTrade ==
    /\ opt.phase = "journal"
    /\ Len(opt.saved) < MaxSaves
    /\ ~(opt.upd.pc = "write" /\ opt.upd.thread = "data")
    /\ \E id \in {Len(opt.saved) + 1} :
          opt' = [opt EXCEPT
                    !.files[today] = Append(@, SavedRecord(id)),
                    !.saved = Append(@, today),
                    !.raced = IF opt.upd.pc = "write" /\ opt.upd.date = today
                              THEN @ \cup {id} ELSE @,
                    !.last = [op |-> "save_trade", id |-> id]]
    /\ UNCHANGED <<account, today, now, trade, ret, last_signal_time, sig, bt, mn>>

\* update_trade_outcome lines 73-89: the file name, the return when the
\* file does not exist, the read of the lines
UpdateRead ==
    /\ opt.phase = "journal" /\ opt.upd.pc = "idle"
    /\ opt.calls < MaxOutcomes
    /\ \E id \in DOMAIN opt.saved, outcome \in JournalOutcomes :
          opt' = IF opt.files[today] = <<>>
                 THEN [opt EXCEPT !.calls = @ + 1,
                                  !.last = [op |-> "update_trade_outcome", id |-> id,
                                            outcome |-> outcome,
                                            pnl |-> OutcomePnl(outcome),
                                            date |-> today]]
                 ELSE [opt EXCEPT !.calls = @ + 1,
                                  !.upd = [pc |-> "write", date |-> today, id |-> id,
                                           outcome |-> outcome,
                                           thread |-> CallerThread(outcome),
                                           lines |-> Rewritten(opt.files[today], id, outcome,
                                                               OutcomePnl(outcome))],
                                  !.last = [op |-> "read", id |-> id]]
    /\ UNCHANGED <<account, today, now, trade, ret, last_signal_time, sig, bt, mn>>

\* update_trade_outcome line 93: _atomic_write, whose os.replace puts the
\* lines that were read in the place of the file
UpdateReplace ==
    /\ opt.phase = "journal" /\ opt.upd.pc = "write"
    /\ opt' = [opt EXCEPT !.files[opt.upd.date] = opt.upd.lines,
                          !.upd = [pc |-> "idle"],
                          !.last = [op |-> "update_trade_outcome", id |-> opt.upd.id,
                                    outcome |-> opt.upd.outcome,
                                    pnl |-> OutcomePnl(opt.upd.outcome),
                                    date |-> opt.upd.date]]
    /\ UNCHANGED <<account, today, now, trade, ret, last_signal_time, sig, bt, mn>>

NextJournal == JournalDateAdvance \/ SaveTrade \/ UpdateRead \/ UpdateReplace

SpecJournal == InitJournal /\ [][NextJournal]_vars

----------------------------------------------------------------------------
(* regime.detect_regime: SpecRegime *)
(*                                                                         *)
(* The four quantities of the decision are inputs: ATR / price in 1/10000, *)
(* RSI in points, the volatilities in 1/1000.  realized_vol is NaN on      *)
(* fewer than two rows; context["iv"]["current_iv"] can be missing (0.0),  *)
(* None or 0.                                                              *)

HIGH_IV_NUM == 3            \* line 95: implied > realized * 1.5
HIGH_IV_DEN == 2
TREND_ATR_BP == 150         \* line 99: atr_pct > 0.015
TREND_RSI_LOW == 40         \* line 99: 40 < rsi_val < 60
TREND_RSI_HIGH == 60
REVERSION_RSI_HIGH == 70    \* line 103: rsi_val > 70 or rsi_val < 30
REVERSION_RSI_LOW == 30

Num(v) == [kind |-> "num", v |-> v]
NaN == [kind |-> "nan", v |-> 0]
None == [kind |-> "none", v |-> 0]

\* Python's and IEEE's a > b * 1.5: false when either side is NaN
GreaterThanScaled(a, b) ==
    a.kind = "num" /\ b.kind = "num" /\ HIGH_IV_DEN * a.v > HIGH_IV_NUM * b.v

\* Python's truth value of implied: None and 0.0 are false, NaN is true
Truthy(a) == a.kind = "nan" \/ (a.kind = "num" /\ a.v # 0)

RegimeTrendFirst(in) ==
    IF in.raises THEN "neutral"
    ELSE IF in.atr_pct > TREND_ATR_BP /\ TREND_RSI_LOW < in.rsi /\ in.rsi < TREND_RSI_HIGH
    THEN "trend"
    ELSE IF Truthy(in.implied) /\ GreaterThanScaled(in.implied, in.realized)
    THEN "high_iv"
    ELSE IF in.rsi > REVERSION_RSI_HIGH \/ in.rsi < REVERSION_RSI_LOW
    THEN "mean_reversion"
    ELSE "neutral"

\* detect_regime lines 85-110
detect_regime(in) ==
    IF in.raises THEN "neutral"
    ELSE IF Truthy(in.implied) /\ GreaterThanScaled(in.implied, in.realized)
    THEN "high_iv"
    ELSE IF in.atr_pct > TREND_ATR_BP /\ TREND_RSI_LOW < in.rsi /\ in.rsi < TREND_RSI_HIGH
    THEN "trend"
    ELSE IF in.rsi > REVERSION_RSI_HIGH \/ in.rsi < REVERSION_RSI_LOW
    THEN "mean_reversion"
    ELSE "neutral"

RsiValues == {0, 29, 30, 31, 40, 41, 50, 59, 60, 61, 70, 71, 100}
AtrPctValues == {0, 149, 150, 151, 300}
ImpliedValues == {None, NaN, Num(0), Num(299), Num(300), Num(301)}
RealizedValues == {NaN, Num(0), Num(200)}

InitRegime ==
    /\ today = 0
    /\ account = NewAccount(0)
    /\ now = T0
    /\ trade = NoTrade
    /\ ret = [op |-> "init"]
    /\ IdleSignals
    /\ IdleBacktest
    /\ IdleMain
    /\ \E rsi \in RsiValues, atr_pct \in AtrPctValues,
          implied \in ImpliedValues, realized \in RealizedValues,
          raises \in BOOLEAN :
          opt = [phase |-> "regime",
                 in    |-> [rsi |-> rsi, atr_pct |-> atr_pct, implied |-> implied,
                            realized |-> realized, raises |-> raises],
                 last  |-> [op |-> "init"]]

CallDetectRegime ==
    /\ opt.phase = "regime" /\ opt.last.op = "init"
    /\ opt' = [opt EXCEPT !.last = [op |-> "detect_regime",
                                    value |-> detect_regime(opt.in)]]
    /\ UNCHANGED <<account, today, now, trade, ret, last_signal_time, sig, bt, mn>>

NextRegime == CallDetectRegime

SpecRegime == InitRegime /\ [][NextRegime]_vars

----------------------------------------------------------------------------
(* journal.calculate_expectancy on its own: SpecExpectancy *)

MaxExpTrades == 12   \* winning and losing trades of one journal, each

WIN_PNL == 50        \* the PnL of the journals of SpecExpectancy, dollars
LOSS_PNL == -30

ExpWin   == [strategy |-> "breakout", pnl |-> WIN_PNL,  closed |-> TRUE]
ExpLoss  == [strategy |-> "breakout", pnl |-> LOSS_PNL, closed |-> TRUE]
ExpEven  == [strategy |-> "breakout", pnl |-> 0,        closed |-> TRUE]
ExpOpen  == [strategy |-> "breakout", pnl |-> 0,        closed |-> FALSE]
ExpOther == [strategy |-> "orb",      pnl |-> WIN_PNL,  closed |-> TRUE]

ExpKinds == {ExpWin, ExpLoss, ExpEven, ExpOpen, ExpOther}

InitExpectancy ==
    /\ today = 0
    /\ account = NewAccount(0)
    /\ now = T0
    /\ trade = NoTrade
    /\ ret = [op |-> "init"]
    /\ IdleSignals
    /\ IdleBacktest
    /\ IdleMain
    /\ \E w \in 0..MaxExpTrades, l \in 0..MaxExpTrades, e \in 0..1, o \in 0..1, x \in 0..1 :
          opt = [phase   |-> "expectancy",
                 journal |-> [k \in ExpKinds |->
                                 CASE k = ExpWin  -> w
                                   [] k = ExpLoss -> l
                                   [] k = ExpEven -> e
                                   [] k = ExpOpen -> o
                                   [] OTHER       -> x],
                 last    |-> [op |-> "init"]]

CallCalculateExpectancy ==
    /\ opt.phase = "expectancy" /\ opt.last.op = "init"
    /\ \E strategy \in {"all", "breakout"} :
       \E v \in {calculate_expectancy(opt.journal, strategy)} :
          opt' = [opt EXCEPT !.last = [op |-> "calculate_expectancy",
                                       strategy |-> strategy, value |-> v]]
    /\ UNCHANGED <<account, today, now, trade, ret, last_signal_time, sig, bt, mn>>

NextExpectancy == CallCalculateExpectancy

SpecExpectancy == InitExpectancy /\ [][NextExpectancy]_vars

----------------------------------------------------------------------------
(* The weights file across saves, write errors, crashes and restarts:      *)
(* SpecPersist                                                             *)
(*                                                                         *)
(* The process imports strategy_optimizer (the defaults, then              *)
(* load_weights at the last line of the module), calls update_weights,     *)
(* whose save_weights writes strategy_weights.json.tmp and renames it,     *)
(* and can be killed between any two steps; the files stay and the         *)
(* process starts again.  The file found at the first start is whatever    *)
(* was left in the journal directory.                                      *)

\* load_weights lines 38-51: _strategy_weights.update(loaded) for a JSON
\* object, the weights as they are for no file, for other JSON and for text
\* json.load rejects
load_weights(weights, file) ==
    IF file = <<>> THEN weights
    ELSE IF file[1].kind = "dict"
    THEN [s \in DOMAIN weights \cup DOMAIN file[1].data |->
             IF s \in DOMAIN file[1].data THEN file[1].data[s] ELSE weights[s]]
    ELSE weights

SaveOpenInPlace(file, tmp) == [file |-> <<FileGarbage>>, tmp |-> tmp]

\* save_weights lines 56-58: open(tmp_path, "w") leaves WEIGHTS_FILE alone
\* and truncates the temporary file
SaveOpen(file, tmp) == [file |-> file, tmp |-> <<FileGarbage>>]

\* the files a first start can find
StartFiles ==
    {<<>>,
     <<FileGarbage>>,
     <<FileDict([s \in {"breakout"} |-> 2 * WeightUnit])>>,
     <<FileDict([s \in {"orb"} |-> 5 * WeightUnit])>>}

\* the journals of SpecPersist: none, ten winning trades, five losing ones
PersistJournals ==
    {[k \in JournalKinds |-> 0],
     [k \in JournalKinds |-> IF k.pnl > 0 THEN OPTIMIZER_MIN_TRADES ELSE 0],
     [k \in JournalKinds |-> IF k.pnl < 0 THEN OPTIMIZER_MIN_TRADES \div 2 ELSE 0]}

ClosedLines(journal) ==
    SumKinds(journal, DOMAIN journal, [k \in DOMAIN journal |-> IF k.closed THEN 1 ELSE 0])

InitPersist ==
    /\ today = 0
    /\ account = NewAccount(0)
    /\ now = T0
    /\ trade = NoTrade
    /\ ret = [op |-> "init"]
    /\ IdleSignals
    /\ IdleBacktest
    /\ IdleMain
    /\ \E file \in StartFiles, journal \in PersistJournals :
          opt = [phase     |-> "run",
                 pc        |-> "import",
                 weights   |-> DefaultWeights,
                 file      |-> file,
                 tmp       |-> <<>>,
                 start     |-> file,
                 prev      |-> file,
                 new       |-> file,
                 journal   |-> journal,
                 lifecycle |-> ClosedLines(journal),
                 calls     |-> 0,
                 crashes   |-> 0,
                 last      |-> [op |-> "init"]]

\* strategy_optimizer line 119: load_weights() on import
CallLoadWeights ==
    /\ opt.phase = "run" /\ opt.pc = "import"
    /\ opt' = [opt EXCEPT !.weights = load_weights(opt.weights, opt.file),
                          !.pc = "idle",
                          !.last = [op |-> "load_weights", file |-> opt.file]]
    /\ UNCHANGED <<account, today, now, trade, ret, last_signal_time, sig, bt, mn>>

\* update_weights lines 74-103 and, when the update is applied, save_weights
\* up to the open of the temporary file.  The temporary file a crash left
\* behind is one more file of JOURNAL_DIR whose lines are counted.
BeginUpdateWeights ==
    /\ opt.phase = "run" /\ opt.pc = "idle"
    /\ opt.calls < MaxUpdates
    /\ IF TradeCount(opt.journal, opt.lifecycle, opt.file)
             + (IF opt.tmp = <<>> THEN 0 ELSE FileLines(opt.tmp[1]))
           >= OPTIMIZER_MIN_TRADES
       THEN \E w \in {Updated(opt.weights, opt.journal)} :
            \E f \in {SaveOpen(opt.file, opt.tmp)} :
               opt' = [opt EXCEPT !.weights = w,
                                  !.file = f.file,
                                  !.tmp = f.tmp,
                                  !.prev = opt.file,
                                  !.new = <<FileDict(w)>>,
                                  !.pc = "dump",
                                  !.calls = @ + 1,
                                  !.last = [op |-> "update_weights", applied |-> TRUE]]
       ELSE opt' = [opt EXCEPT !.calls = @ + 1,
                               !.last = [op |-> "update_weights", applied |-> FALSE]]
    /\ UNCHANGED <<account, today, now, trade, ret, last_signal_time, sig, bt, mn>>

\* save_weights line 59: json.dump has written the whole object and the
\* temporary file is closed
SaveDump ==
    /\ opt.phase = "run" /\ opt.pc = "dump"
    /\ opt' = [opt EXCEPT !.tmp = <<FileDict(opt.weights)>>,
                          !.pc = "replace",
                          !.last = [op |-> "dump"]]
    /\ UNCHANGED <<account, today, now, trade, ret, last_signal_time, sig, bt, mn>>

\* save_weights line 60: os.replace(tmp_path, WEIGHTS_FILE)
SaveReplace ==
    /\ opt.phase = "run" /\ opt.pc = "replace"
    /\ opt' = [opt EXCEPT !.file = opt.tmp,
                          !.tmp = <<>>,
                          !.pc = "idle",
                          !.last = [op |-> "replace"]]
    /\ UNCHANGED <<account, today, now, trade, ret, last_signal_time, sig, bt, mn>>

\* save_weights lines 62-63: the write or the rename raises, the error is
\* logged and update_weights goes on
SaveError ==
    /\ opt.phase = "run" /\ opt.pc \in {"dump", "replace"}
    /\ opt' = [opt EXCEPT !.pc = "idle",
                          !.last = [op |-> "save_error", at |-> opt.pc]]
    /\ UNCHANGED <<account, today, now, trade, ret, last_signal_time, sig, bt, mn>>

\* the process is killed and started again: the module-level defaults, the
\* files as they are
Crash ==
    /\ opt.phase = "run" /\ opt.pc # "import"
    /\ opt.crashes < MaxCrashes
    /\ opt' = [opt EXCEPT !.weights = DefaultWeights,
                          !.pc = "import",
                          !.crashes = @ + 1,
                          !.last = [op |-> "crash", at |-> opt.pc]]
    /\ UNCHANGED <<account, today, now, trade, ret, last_signal_time, sig, bt, mn>>

NextPersist ==
    \/ CallLoadWeights \/ BeginUpdateWeights \/ SaveDump \/ SaveReplace
    \/ SaveError \/ Crash

SpecPersist == InitPersist /\ [][NextPersist]_vars

----------------------------------------------------------------------------
(* backtest.run_backtest *)
(*                                                                         *)
(* The calls at lines 142, 161 and 171 do not match what they call:        *)
(* generate_signals(df_bar, {...}) passes no weights, the label reads      *)
(* signal_dict["signals"], and check_exit is given entry_time= for its     *)
(* fourth parameter.  As written each of them raises.  The model binds     *)
(* every argument to the parameter it is meant for: the symbol and the     *)
(* bar window go to generate_signals with no weights (every weight reads   *)
(* 1.0), and entry_time is the time check_exit compares with.  The label   *)
(* of line 161 decides nothing and is left out.                            *)

STARTING_EQUITY == 12508        \* config.STARTING_EQUITY
SPREAD_WARNING_NUM == 1         \* SPREAD_WARNING_PCT = 0.05 = 1/20
SPREAD_WARNING_DEN == 20
CONTRACT_SIZE == 100            \* line 174: * 100
CONSERVATIVE_PNL == TRUE

MaxBars == 3         \* the bar series of a backtest has MaxBars rows

Contract(bid, ask) == [bid |-> bid, ask |-> ask]

\* fetch_options_chain line 105
Mid(c) == (c.bid + c.ask) \div 2

\* lines 152-153: spread = (ask - bid) / mid if mid else 1; spread > 0.05
SpreadTooWide(c) ==
    IF Mid(c) = 0 THEN TRUE
    ELSE IF Mid(c) > 0
         THEN (c.ask - c.bid) * SPREAD_WARNING_DEN > SPREAD_WARNING_NUM * Mid(c)
         ELSE (c.ask - c.bid) * SPREAD_WARNING_DEN < SPREAD_WARNING_NUM * Mid(c)

\* lines 170-172: the first exit over the rows from j to the end of eq_df
RECURSIVE Settle(_, _, _, _)
Settle(t, bars, j, time) ==
    IF j > Len(bars) THEN [exit |-> "None", at |-> 0]
    ELSE IF check_exit(t, bars[j].close, time).outcome # "None"
         THEN [exit |-> check_exit(t, bars[j].close, time).outcome, at |-> j]
         ELSE Settle(check_exit(t, bars[j].close, time).trade, bars, j + 1, time)

\* lines 173-174
BacktestPnl(c, t, score) ==
    ((IF CONSERVATIVE_PNL THEN c.bid ELSE Mid(c)) - t.entry)
        * CONTRACT_SIZE * t.size * (IF score > 0 THEN 1 ELSE -1)

\* what plan_trade decided for one contract
Decision(t) ==
    IF t.valid
    THEN [valid |-> TRUE, size |-> t.size, stop |-> t.stop, target |-> t.target]
    ELSE [valid |-> FALSE]

\* lines 151-181: the contracts of the chain from the c-th on, at bar i
RECURSIVE Contracts(_, _, _, _, _, _, _, _, _)
Contracts(a, equity, chain, c, bars, i, score, d, time) ==
    IF c > Len(chain)
    THEN [account |-> a, equity |-> equity, decisions |-> <<>>, closed |-> 0,
          exits |-> <<>>]
    ELSE IF SpreadTooWide(chain[c])
    THEN Contracts(a, equity, chain, c + 1, bars, i, score, d, time)
    ELSE LET p    == plan_trade(a, Mid(chain[c]), SubSeq(bars, 1, i), score, d, time)
             s    == Settle(p.trade, bars, i, time)
             pnl  == BacktestPnl(chain[c], p.trade, score)
             exit == p.trade.valid /\ s.exit # "None"
             rest == Contracts(IF exit THEN update_pnl(p.account, pnl) ELSE p.account,
                               IF exit THEN equity + pnl ELSE equity,
                               chain, c + 1, bars, i, score, d, time)
         IN  [account   |-> rest.account,
              equity    |-> rest.equity,
              decisions |-> <<Decision(p.trade)>> \o rest.decisions,
              closed    |-> rest.closed + (IF exit THEN 1 ELSE 0),
              \* lines 175-176: trade["pnl"], trade["outcome"]
              exits     |-> (IF exit
                             THEN <<[outcome |-> s.exit, pnl |-> pnl,
                                     long |-> score > 0]>>
                             ELSE <<>>) \o rest.exits]

\* lines 128-130
NewRun ==
    [i |-> 1, equity |-> Dollars(STARTING_EQUITY), account |-> NewAccount(0),
     lst |-> <<>>, closed |-> 0, exits |-> <<>>, log |-> <<>>]

\* lines 137-181: one turn of the loop over eq_df for a symbol, at bar r.i
BacktestBarOf(symbol, r, bars, chain, time) ==
    LET df_bar == SubSeq(bars, 1, r.i)
        g      == generate_signals(r.lst, symbol,
                                   [bars |-> df_bar, context |-> [disable_ml |-> TRUE]],
                                   <<>>, STRATEGY_TOGGLES, [kind |-> "absent"], time)
        res    == Contracts(r.account, r.equity, chain, 1, bars, r.i,
                            g.result.score, 0, time)
    IN  IF Blocked(g.result)
        THEN [r EXCEPT !.i = @ + 1, !.lst = g.lst,
                       !.log = Append(@, [signal |-> g.result, decisions |-> <<>>])]
        ELSE [i       |-> r.i + 1,
              equity  |-> res.equity,
              account |-> res.account,
              lst     |-> g.lst,
              closed  |-> r.closed + res.closed,
              exits   |-> r.exits \o res.exits,
              log     |-> Append(r.log, [signal |-> g.result,
                                         decisions |-> res.decisions])]

\* the loop over eq_df of the one symbol of SpecBacktest
BacktestBar(r, bars, chain, time) == BacktestBarOf("SPY", r, bars, chain, time)

----------------------------------------------------------------------------
(* Two backtests on bar series that differ in one bar: SpecBacktest *)

BtCloses == {Dollars(98), Dollars(99), Dollars(100), Dollars(101)}

BtSeries == [1..MaxBars -> {Row(c, c, c, 10) : c \in BtCloses}]

BtChains ==
    {<<>>,
     <<Contract(Dollars(90), Dollars(110))>>,
     <<Contract(Dollars(99), Dollars(101))>>,
     <<Contract(Dollars(99), Dollars(101)), Contract(Dollars(99), Dollars(101))>>}

Runs == {"A", "B"}

InitBacktest ==
    /\ today = 0
    /\ account = NewAccount(0)
    /\ now = T0
    /\ trade = NoTrade
    /\ ret = [op |-> "init"]
    /\ IdleSignals
    /\ IdleMain
    /\ IdleOptimizer
    /\ \E a \in BtSeries, k \in 2..MaxBars, c \in BtCloses, chain \in BtChains,
          gap \in {0, SIGNAL_COOLDOWN_SEC} :
          /\ a[k].close # c
          /\ bt = [phase |-> "run",
                   bars  |-> [A |-> a, B |-> [a EXCEPT ![k] = Row(c, c, c, 10)]],
                   k     |-> k,
                   chain |-> chain,
                   gap   |-> gap,
                   runs  |-> [x \in Runs |-> NewRun]]

\* one turn of the loop of one of the two runs; the wall clock moves by gap
\* seconds from one bar to the next
BacktestStep ==
    \E x \in Runs :
        /\ bt.phase = "run"
        /\ bt.runs[x].i <= MaxBars
        /\ \E r \in {BacktestBar(bt.runs[x], bt.bars[x], bt.chain,
                                 T0 + (bt.runs[x].i - 1) * bt.gap)} :
               bt' = [bt EXCEPT !.runs[x] = r]
        /\ UNCHANGED <<account, today, now, trade, ret, last_signal_time, sig, mn, opt>>

NextBacktest == BacktestStep

SpecBacktest == InitBacktest /\ [][NextBacktest]_vars

----------------------------------------------------------------------------
(* Two backtests that differ in BACKTEST_SYMBOLS: SpecSymbols              *)
(*                                                                         *)
(* Run "pair" has BACKTEST_SYMBOLS = ["SPY", "QQQ"], run "solo" has        *)
(* ["QQQ"]; both read the same bars and chains.  equity, trades and        *)
(* account are set once, at lines 128-130, before the loop over the        *)
(* symbols at line 132.                                                    *)

SymbolLists == [pair |-> <<"SPY", "QQQ">>, solo |-> <<"QQQ">>]

\* the series of SpecSymbols open at 100 dollars; SPY's ends at 98
QqqSeries == {a \in BtSeries : a[1].close = Dollars(100)}
SpySeries == {a \in QqqSeries : a[MaxBars].close = Dollars(98)}

SymbolChains == {c \in BtChains : c # <<>> /\ ~SpreadTooWide(c[1])}

InitSymbols ==
    /\ today = 0
    /\ account = NewAccount(0)
    /\ now = T0
    /\ trade = NoTrade
    /\ ret = [op |-> "init"]
    /\ IdleSignals
    /\ IdleMain
    /\ IdleOptimizer
    /\ \E spy \in SpySeries, qqq \in QqqSeries, chain \in SymbolChains,
          gap \in {0, SIGNAL_COOLDOWN_SEC} :
          bt = [phase |-> "symbols",
                bars  |-> [SPY |-> spy, QQQ |-> qqq],
                chain |-> chain,
                gap   |-> gap,
                runs  |-> [x \in DOMAIN SymbolLists |->
                             [n |-> 1, r |-> NewRun, logs |-> <<>>]]]

\* one turn of the loop over eq_df for the n-th symbol of the run's list;
\* after the last bar the loop of line 132 goes to the next symbol with the
\* same equity, trades and account
SymbolStep ==
    \E x \in DOMAIN SymbolLists :
        /\ bt.phase = "symbols"
        /\ bt.runs[x].n <= Len(SymbolLists[x])
        /\ \E symbol \in {SymbolLists[x][bt.runs[x].n]} :
           \E r \in {BacktestBarOf(symbol, bt.runs[x].r, bt.bars[symbol], bt.chain,
                                    T0 + ((bt.runs[x].n - 1) * MaxBars
                                            + bt.runs[x].r.i - 1) * bt.gap)} :
               bt' = [bt EXCEPT !.runs[x] =
                        IF r.i <= MaxBars
                        THEN [@ EXCEPT !.r = r]
                        ELSE [n    |-> @.n + 1,
                              r    |-> [r EXCEPT !.i = 1, !.log = <<>>],
                              logs |-> Append(@.logs, r.log)]]
        /\ UNCHANGED <<account, today, now, trade, ret, last_signal_time, sig, mn, opt>>

NextSymbols == SymbolStep

SpecSymbols == InitSymbols /\ [][NextSymbols]_vars

----------------------------------------------------------------------------
(* Claims about the Account guardrails and plan_trade (SpecPlan) *)

\* C1: once trades_today has reached MAX_TRADES_PER_DAY, the counter stays
\* there and every plan_trade call returns an invalid trade, for every
\* entry, bars and confidence, as long as no call resets the counters (a
\* reset is the only thing that changes last_reset).
C1_MaxTradesLockout ==
    [][(account.trades_today >= MAX_TRADES_PER_DAY
            /\ account'.last_reset = account.last_reset)
        => /\ account'.trades_today >= MAX_TRADES_PER_DAY
           /\ (ret'.op = "plan_trade" => ~ret'.trade.valid)]_vars

\* plan_trade was called with inputs that a fresh account accepts, the daily
\* loss limit is not reached, and the trade counter alone made it invalid
C1_Witness ==
    /\ ret.op = "plan_trade"
    /\ ret.entry = Dollars(100) /\ ret.bars = "range" /\ ret.confidence = ScoreUnit
    /\ account.trades_today = MAX_TRADES_PER_DAY
    /\ account.net_pnl_today = 0
    /\ ~ret.trade.valid

\* C2: plan_trade never returns a valid trade whose size is below 1 or whose
\* stop equals its target, for any entry price (zero and negative included),
\* any bars and any confidence.
C2_SizeAndStopTarget ==
    (ret.op = "plan_trade" /\ ret.trade.valid)
        => (ret.trade.size >= 1 /\ ret.trade.stop # ret.trade.target)

\* C3: plan_trade returns an invalid trade whenever, after any rollover
\* reset, the absolute net PnL of the day is at least MAX_DAILY_LOSS_PCT
\* times the current equity.
C3_DailyLossLockout ==
    (ret.op = "plan_trade"
        /\ Abs(account.net_pnl_today) * MAX_DAILY_LOSS_DEN
               >= MAX_DAILY_LOSS_NUM * account.equity)
        => ~ret.trade.valid

\* the limit was reached by a gain, with trades left for the day, and
\* plan_trade rejected inputs that a fresh account accepts
C3_Witness ==
    /\ ret.op = "plan_trade"
    /\ ret.entry = Dollars(100) /\ ret.bars = "range" /\ ret.confidence = ScoreUnit
    /\ account.trades_today < MAX_TRADES_PER_DAY
    /\ account.net_pnl_today * MAX_DAILY_LOSS_DEN >= MAX_DAILY_LOSS_NUM * account.equity
    /\ ~ret.trade.valid

\* C15: the daily counters are reset exactly once each time the date moves
\* past last_reset, by the first guardrail check after the move, and never
\* while the date equals last_reset: a call made on the date of last_reset
\* keeps last_reset, lowers no counter and changes net_pnl_today only by a
\* settlement; a can_trade or plan_trade call made on another date zeroes
\* both counters and sets last_reset to that date.
C15_ResetOncePerDate ==
    [][today' = today
        => /\ today = account.last_reset
                => /\ account'.last_reset = account.last_reset
                   /\ account'.trades_today >= account.trades_today
                   /\ (ret'.op # "update_pnl"
                         => account'.net_pnl_today = account.net_pnl_today)
           /\ (today # account.last_reset /\ ret'.op \in {"can_trade", "plan_trade"})
                => /\ account'.last_reset = today
                   /\ account'.trades_today = 0
                   /\ account'.net_pnl_today = 0
           /\ account'.last_reset # account.last_reset
                => today # account.last_reset]_vars

\* a guardrail check on a later date has just zeroed counters that a
\* settlement had raised
C15_Witness ==
    /\ ret.op \in {"can_trade", "plan_trade"}
    /\ today > 0 /\ account.last_reset = today
    /\ account.equity # Dollars(DEFAULT_EQUITY)
    /\ account.trades_today = 0 /\ account.net_pnl_today = 0

----------------------------------------------------------------------------
(* Claims about the size, stop and target of plan_trade (SpecSizing) *)

\* floor(equity x RISK_PER_TRADE_PCT / stop distance), 0 without a positive
\* stop distance
RiskSize(equity, stop_dist) ==
    IF stop_dist > 0
    THEN (equity * RISK_PER_TRADE_NUM) \div (RISK_PER_TRADE_DEN * stop_dist)
    ELSE 0

\* floor(equity x KELLY_CAP_PCT / entry), 0 without a positive entry
KellySize(equity, entry) ==
    IF entry > 0 THEN (equity * KELLY_CAP_NUM) \div (KELLY_CAP_DEN * entry) ELSE 0

\* C16: for a valid trade whose unclamped size is at least 1, the size is
\* floor(min(equity x RISK_PER_TRADE_PCT / stop distance,
\* equity x KELLY_CAP_PCT / entry)), so the Kelly-capped size whenever that
\* is the smaller one.
C16_SizeIsFloorOfMin ==
    (ret.op = "plan_trade" /\ ret.trade.valid)
        => LET stop_dist == Abs(ret.trade.entry - ret.trade.stop)
               risk      == RiskSize(ret.equity, stop_dist)
               kelly     == KellySize(ret.equity, ret.trade.entry)
           IN  Min(risk, kelly) >= 1
                   => /\ ret.trade.size = Min(risk, kelly)
                      /\ kelly < risk => ret.trade.size = kelly

\* the scenario of the claim: equity 10,000 and stop distance 2.0 give the
\* risk-based size 37; the Kelly cap gives 1, which is the size
C16_Witness ==
    /\ ret.op = "plan_trade" /\ ret.trade.valid
    /\ ret.equity = Dollars(10000)
    /\ Abs(ret.trade.entry - ret.trade.stop) = Dollars(2)
    /\ RiskSize(ret.equity, Dollars(2)) = 37
    /\ KellySize(ret.equity, ret.trade.entry) = 1
    /\ ret.trade.size = 1

\* a trade whose risk-based size is the smaller one
C16_WitnessRiskBound ==
    /\ ret.op = "plan_trade" /\ ret.trade.valid
    /\ RiskSize(ret.equity, Abs(ret.trade.entry - ret.trade.stop))
           < KellySize(ret.equity, ret.trade.entry)
    /\ ret.trade.size = RiskSize(ret.equity, Abs(ret.trade.entry - ret.trade.stop))
    /\ ret.trade.size > 1

\* C17: plan_trade returns an invalid trade whenever
\* floor(min(risk-based size, Kelly-capped size)) is 0 or below, so the size
\* of a valid trade exceeds neither the risk-based nor the Kelly-capped size.
C17_RejectsSizeBelowOne ==
    ret.op = "plan_trade"
        => LET stop_dist == StopDist(ret.entry, BarsNamed[ret.bars])
               risk      == RiskSize(ret.equity, stop_dist)
               kelly     == KellySize(ret.equity, ret.entry)
           IN  /\ Min(risk, kelly) <= 0 => ~ret.trade.valid
               /\ ret.trade.valid
                    => /\ ret.trade.size * RISK_PER_TRADE_DEN * stop_dist
                              <= ret.equity * RISK_PER_TRADE_NUM
                       /\ ret.trade.size * KELLY_CAP_DEN * ret.entry
                              <= ret.equity * KELLY_CAP_NUM

\* C17 for positive entry prices alone.
C17_RejectsSizeBelowOnePositiveEntry ==
    (ret.op = "plan_trade" /\ ret.entry > 0)
        => (KellySize(ret.equity, ret.entry) <= 0 => ~ret.trade.valid)

\* C18: when the ATR of the bars is unavailable, zero or negative, the stop
\* distance is 1% of the entry price: a valid long trade has
\* stop = entry - 0.01 x entry and a valid short trade stop = entry + 0.01 x entry.
C18_FallbackStopDistance ==
    (ret.op = "plan_trade" /\ ret.trade.valid /\ atr(BarsNamed[ret.bars]) <= 0)
        => /\ ret.confidence > 0
                => ret.trade.stop * 100 = ret.trade.entry * 100 - ret.trade.entry
           /\ ret.confidence < 0
                => ret.trade.stop * 100 = ret.trade.entry * 100 + ret.trade.entry

\* a flat series of ATR_PERIOD bars: long at 100 with the stop at 99
C18_Witness ==
    /\ ret.op = "plan_trade" /\ ret.trade.valid
    /\ ret.bars = "flat" /\ ret.confidence > 0
    /\ ret.trade.entry = Dollars(100) /\ ret.trade.stop = Dollars(99)

\* fewer bars than the ATR period: short at 100 with the stop at 101
C18_WitnessShort ==
    /\ ret.op = "plan_trade" /\ ret.trade.valid
    /\ ret.bars = "short" /\ ret.confidence < 0
    /\ ret.trade.entry = Dollars(100) /\ ret.trade.stop = Dollars(101)

\* C19: every valid trade has stop < entry < target when confidence > 0 and
\* target < entry < stop when confidence < 0, with
\* |target - entry| = TARGET_RR x |entry - stop|.
C19_StopTargetSides ==
    (ret.op = "plan_trade" /\ ret.trade.valid)
        => /\ ret.trade.confidence > 0
                => ret.trade.stop < ret.trade.entry /\ ret.trade.entry < ret.trade.target
           /\ ret.trade.confidence < 0
                => ret.trade.target < ret.trade.entry /\ ret.trade.entry < ret.trade.stop
           /\ Abs(ret.trade.target - ret.trade.entry)
                  = TARGET_RR * Abs(ret.trade.entry - ret.trade.stop)

\* C19, the ratio alone.
C19_RewardRatio ==
    (ret.op = "plan_trade" /\ ret.trade.valid)
        => Abs(ret.trade.target - ret.trade.entry)
               = TARGET_RR * Abs(ret.trade.entry - ret.trade.stop)

\* C19 for positive entry prices alone.
C19_SidesPositiveEntry ==
    (ret.op = "plan_trade" /\ ret.trade.valid /\ ret.entry > 0)
        => /\ ret.trade.confidence > 0
                => ret.trade.stop < ret.trade.entry /\ ret.trade.entry < ret.trade.target
           /\ ret.trade.confidence < 0
                => ret.trade.target < ret.trade.entry /\ ret.trade.entry < ret.trade.stop

----------------------------------------------------------------------------
(* Claims about check_exit (SpecExit) *)

\* C4: check_exit returns one outcome per call, and on a tick whose price
\* satisfies both the stop condition and the target condition of the trade
\* the outcome is STOP.
C4_StopBeforeTarget ==
    ret.op = "check_exit"
        => /\ ret.outcome \in {"STOP", "TARGET", "TRAIL", "TIME", "None"}
           /\ (StopHit(trade, ret.price) /\ TargetHit(trade, ret.price))
                  => ret.outcome = "STOP"

\* a tick at a price strictly between target and stop of a long trade whose
\* stop lies above its target
C4_Witness ==
    /\ ret.op = "check_exit"
    /\ trade.confidence > 0
    /\ trade.target < ret.price /\ ret.price < trade.stop
    /\ ret.outcome = "STOP"

\* C5: a check_exit call moves trailing_stop only in the favourable direction
\* (never down for a long trade, never up for a short one) and leaves entry,
\* stop and target as they were.
C5_TrailingOnlyFavourable ==
    [][ret'.op = "check_exit"
        => /\ trade'.entry = trade.entry
           /\ trade'.stop = trade.stop
           /\ trade'.target = trade.target
           /\ (trade.confidence > 0 => trade'.trailing_stop >= trade.trailing_stop)
           /\ (trade.confidence < 0 => trade'.trailing_stop <= trade.trailing_stop)]_vars

\* a long trade whose trailing stop was ratcheted above entry, seen at a
\* later tick below that trailing stop
C5_Witness ==
    /\ ret.op = "check_exit"
    /\ trade.valid /\ trade.confidence > 0
    /\ trade.trailing_stop > trade.entry
    /\ trade.entry < ret.price /\ ret.price - (ret.price - trade.entry) \div 2 < trade.trailing_stop
    /\ ret.outcome = "None"

\* C6: for a long trade with stop < entry < target within its holding time,
\* check_exit returns no exit at a price above the stop and not above entry,
\* and STOP at a price at or below the stop.
C6_LongStopScenario ==
    (ret.op = "check_exit" /\ trade.valid /\ trade.confidence > 0
        /\ trade.stop < trade.entry /\ trade.entry < trade.target
        /\ now - trade.entry_time <= MAX_HOLD_SEC)
        => /\ (trade.stop < ret.price /\ ret.price <= trade.entry)
                  => ret.outcome = "None"
           /\ ret.price <= trade.stop => ret.outcome = "STOP"

\* the scenario of the claim: long at 100, stop 98, target 104, tick at 97.5
C6_Witness ==
    /\ ret.op = "check_exit"
    /\ trade.valid /\ trade.confidence > 0
    /\ trade.entry = Dollars(100) /\ trade.stop = Dollars(98)
    /\ trade.target = Dollars(104)
    /\ ret.price = HalfDollars(195)
    /\ ret.outcome = "STOP"

\* the first tick of the scenario: 99 gives no exit
C6_WitnessHold ==
    /\ ret.op = "check_exit"
    /\ trade.valid /\ trade.confidence > 0
    /\ trade.entry = Dollars(100) /\ trade.stop = Dollars(98)
    /\ ret.price = Dollars(99)
    /\ ret.outcome = "None"

\* check_exit has just returned None for the open trade
NoExit == trade.valid /\ ret.op = "check_exit" /\ ret.outcome = "None"

\* C31: whenever check_exit returns no exit, the price is above the trailing
\* stop of a long trade and below that of a short trade: a trade whose
\* trailing stop was ratcheted past entry is exited on the first tick at or
\* through it.
C31_NoExitBeyondTrailingStop ==
    NoExit
        => /\ Direction(trade) > 0 => ret.price > trade.trailing_stop
           /\ Direction(trade) < 0 => ret.price < trade.trailing_stop

\* C31 for the ticks whose price is on the profitable side of entry
C31_NoExitWhileInProfit ==
    NoExit
        => /\ (Direction(trade) > 0 /\ ret.price > trade.entry)
                => ret.price > trade.trailing_stop
           /\ (Direction(trade) < 0 /\ ret.price < trade.entry)
                => ret.price < trade.trailing_stop

\* a long trade ratcheted past entry, a price above entry and the old
\* trailing stop, held
C31_ReachedHeldInProfit ==
    /\ NoExit /\ Direction(trade) > 0
    /\ trade.trailing_stop > trade.entry
    /\ ret.price > trade.trailing_stop

----------------------------------------------------------------------------
(* Claims about generate_signals (SpecSignals) *)

\* C8: a generate_signals call made less than SIGNAL_COOLDOWN_SEC after the
\* symbol's last-signal-time returns signal 0, score 0 and an empty strategy
\* map, invokes no strategy and no ML prediction and leaves the
\* last-signal-times as they were; a call that evaluates comes at least
\* SIGNAL_COOLDOWN_SEC after the last-signal-time of its symbol and becomes
\* that symbol's last-signal-time.
C8_CooldownGate ==
    sig.op = "generate_signals"
        => LET last == IF sig.symbol \in DOMAIN sig.before
                       THEN sig.before[sig.symbol] ELSE 0
           IN  /\ now - last < SIGNAL_COOLDOWN_SEC
                    => /\ sig.result = [signal |-> 0, score |-> 0, strategies |-> <<>>]
                       /\ sig.invoked = {}
                       /\ ~sig.ml_called
                       /\ last_signal_time = sig.before
               /\ (sig.ml_called \/ sig.invoked # {})
                    => /\ now - last >= SIGNAL_COOLDOWN_SEC
                       /\ sig.symbol \in DOMAIN last_signal_time
                       /\ last_signal_time[sig.symbol] = now

\* a call 60 s after an evaluated call for the same symbol, with data and a
\* model that give signal 1 outside the cooldown
C8_Witness ==
    /\ sig.op = "generate_signals"
    /\ sig.symbol \in DOMAIN sig.before
    /\ now - sig.before[sig.symbol] = 60
    /\ sig.data = "rally" /\ sig.model.kind = "absent"
    /\ sig.result.signal = 0
    /\ sig.invoked = {}

\* an evaluated call exactly SIGNAL_COOLDOWN_SEC after the previous one
C8_WitnessEvaluated ==
    /\ sig.op = "generate_signals"
    /\ sig.symbol \in DOMAIN sig.before
    /\ now - sig.before[sig.symbol] = SIGNAL_COOLDOWN_SEC
    /\ sig.ml_called
    /\ sig.result.signal = 1

\* C9: generate_signals updates last-signal-time only when it returns an
\* approved signal: a call whose result is blocked or carries signal 0
\* leaves the last-signal-times unchanged.
C9_OnlyApprovedStartsCooldown ==
    (sig.op = "generate_signals"
        /\ (Blocked(sig.result) \/ sig.result.signal = 0))
        => last_signal_time = sig.before

\* C10: when the probability adapter returns a probability below the cutoff,
\* the aggregator returns a blocked result that still reports the
\* per-strategy raw signals and the probability, and the tick plans no trade
\* from that result.
C10_MlRejectionBlocks ==
    (sig.op = "generate_signals" /\ sig.ml_prob # <<>>
        /\ sig.ml_prob[1] * CONFIDENCE_CUTOFF_DEN < CONFIDENCE_CUTOFF_NUM * 100)
        => /\ sig.result.strategies
                  = RunStrategies(STRATEGY_TOGGLES, DataNamed[sig.data].bars,
                                  DataNamed[sig.data].context)
           /\ "blocked" \in DOMAIN sig.result /\ sig.result.blocked
           /\ "ml_prob" \in DOMAIN sig.result /\ sig.result.ml_prob = sig.ml_prob[1]
           /\ ~PlansTrade(sig.result, account, DataNamed[sig.data], today, now)

\* C10, the part about the tick alone: no trade is planned from a result the
\* ML filter rejected.
C10_NoTradeFromRejection ==
    (sig.op = "generate_signals" /\ sig.ml_prob # <<>>
        /\ sig.ml_prob[1] * CONFIDENCE_CUTOFF_DEN < CONFIDENCE_CUTOFF_NUM * 100)
        => ~PlansTrade(sig.result, account, DataNamed[sig.data], today, now)

\* C11: when the probability adapter returns None (no model file, empty
\* bars, or an error inside the prediction), the result of generate_signals
\* is what the weighted score alone gives: the score of the strategies and
\* its sign as the signal, never signal 0 on account of the missing
\* probability.
C11_NullIsNoOpinion ==
    (sig.op = "generate_signals" /\ sig.ml_called /\ sig.ml_prob = <<>>)
        => LET signals == RunStrategies(STRATEGY_TOGGLES, DataNamed[sig.data].bars,
                                        DataNamed[sig.data].context)
               score   == WeightedScore(signals, WeightsNamed[sig.weights])
           IN  sig.result = [signal     |-> Sign(score),
                             score      |-> score,
                             strategies |-> signals]

\* no model file, and the strategies alone give signal 1
C11_Witness ==
    /\ sig.op = "generate_signals"
    /\ sig.ml_called /\ sig.ml_prob = <<>>
    /\ sig.model.kind = "absent"
    /\ sig.result.signal = 1 /\ sig.result.score > 0

\* a model file that fails to load or predict, and the strategies give -1
C11_WitnessBroken ==
    /\ sig.op = "generate_signals"
    /\ sig.ml_called /\ sig.ml_prob = <<>>
    /\ sig.model.kind = "broken"
    /\ sig.result.signal = -1

\* C12: when the data of the call carries the ML-disable flag, generate_signals
\* does not invoke the probability adapter and the signal is the sign of the
\* score, never 0 on account of a model probability.
C12_DisableMlBypasses ==
    (sig.op = "generate_signals" /\ DisableMl(DataNamed[sig.data]))
        => /\ ~sig.ml_called
           /\ sig.result.signal = Sign(sig.result.score)

\* C12, the second half alone: with the flag set no model probability turns
\* the signal to 0.
C12_NeverBlockedWhenDisabled ==
    (sig.op = "generate_signals" /\ DisableMl(DataNamed[sig.data]))
        => sig.result.signal = Sign(sig.result.score)

----------------------------------------------------------------------------
(* Claims about the strategy toggles (SpecToggles) *)

\* C13: with every strategy toggle disabled, generate_signals returns signal 0
\* with score 0, for any bars, context, weights and ML outcome.
C13_AllDisabledIsZero ==
    (sig.op = "generate_signals" /\ \A s \in StrategyNames : ~sig.toggles[s])
        => /\ sig.result.signal = 0
           /\ sig.result.score = 0

\* an evaluated call with every toggle off, on data that gives signal 1 with
\* the toggles of config.py, and a model that approves
C13_Witness ==
    /\ sig.op = "generate_signals"
    /\ \A s \in StrategyNames : ~sig.toggles[s]
    /\ sig.ml_called
    /\ sig.data = "rally" /\ sig.weights = "tilted"
    /\ sig.model = [kind |-> "model", p |-> 65]
    /\ sig.result = [signal |-> 0, score |-> 0, strategies |-> <<>>]

----------------------------------------------------------------------------
(* Claims about the trade loop of main.py (SpecMain) *)

C14_JournaledAndSettledOnce ==
    mn.phase = "run"
        => \A id \in DOMAIN mn.journal :
               /\ Len(mn.journal[id]) <= 1
               /\ (mn.journal[id] = <<"MANUAL_EXIT">> => mn.settled[id] = 0)

\* C14 within one thread: a trade the data handler closed while no manual
\* exit was under way has one outcome and one settlement.
C14_HandlerAloneClosesOnce ==
    mn.phase = "run"
        => \A id \in DOMAIN mn.journal :
               (mn.journal[id] # <<>> /\ "MANUAL_EXIT" \notin {mn.journal[id][k] : k \in DOMAIN mn.journal[id]})
                   => Len(mn.journal[id]) = 1 /\ mn.settled[id] = 1

\* the trades that have left active_trades
Removed == DOMAIN mn.trades \ mn.active

C34_ExitPathsJournalFirst ==
    mn.phase = "run" => \A id \in Removed \ mn.halted : mn.journal[id] # <<>>

\* one trade removed by the exit path and one by manual exit, both journaled
C34_ReachedBothExitPaths ==
    /\ mn.phase = "run"
    /\ \E id \in Removed \ mn.halted : mn.journal[id] = <<"MANUAL_EXIT">>
    /\ \E id \in Removed \ mn.halted :
          mn.journal[id] # <<>> /\ mn.journal[id][1] # "MANUAL_EXIT"

\* C32 in handle_data: a trade the handler settled with TARGET has PnL > 0,
\* one settled with STOP has PnL < 0
C32_LivePnlSignMatchesOutcome ==
    mn.phase = "run"
        => \A id \in DOMAIN mn.trades :
               mn.settled[id] > 0
                   => /\ mn.trades[id].outcome = "TARGET" => mn.trades[id].pnl > 0
                      /\ mn.trades[id].outcome = "STOP" => mn.trades[id].pnl < 0

\* a trade settled with STOP in the live loop
C32_ReachedLiveStop ==
    /\ mn.phase = "run"
    /\ \E id \in DOMAIN mn.trades :
          mn.settled[id] > 0 /\ mn.trades[id].outcome = "STOP" /\ mn.trades[id].pnl < 0

----------------------------------------------------------------------------
(* Claims about the strategy optimizer (SpecOptimizer) *)

\* C20: update_weights changes the in-memory weights and writes the weights
\* file only when the number of journaled trades is at least
\* OPTIMIZER_MIN_TRADES; with fewer journaled trades the call leaves every
\* weight and the weights file unchanged.
C20_UpdateGatedByTradeCount ==
    (opt.phase = "run" /\ opt.last.op = "update_weights"
        /\ opt.last.trades < OPTIMIZER_MIN_TRADES)
        => /\ opt.weights = opt.last.weights
           /\ opt.file = opt.last.file

\* C20, the other direction: with at least OPTIMIZER_MIN_TRADES journaled
\* trades the call applies the smoothed weights and writes the file.
C20_UpdateAppliedAtThreshold ==
    (opt.phase = "run" /\ opt.last.op = "update_weights"
        /\ opt.last.trades >= OPTIMIZER_MIN_TRADES)
        => /\ opt.weights = Updated(opt.last.weights, opt.journal)
           /\ opt.file = <<FileDict(opt.weights)>>

\* C20 for a directory that holds trade files only: no lifecycle line, no
\* weights file.
C20_GatedWithoutOtherFiles ==
    (opt.phase = "run" /\ opt.last.op = "update_weights"
        /\ opt.last.trades < OPTIMIZER_MIN_TRADES
        /\ opt.lifecycle = 0 /\ opt.last.file = <<>>)
        => /\ opt.weights = opt.last.weights
           /\ opt.file = opt.last.file

\* alpha x expectancy + (1 - alpha) x old weight, clamped to [-3, 3], in
\* WeightUnit
Smoothed(exp, old) ==
    Max(Min((EXPECTANCY_SMOOTHING_NUM * exp
                + (EXPECTANCY_SMOOTHING_DEN - EXPECTANCY_SMOOTHING_NUM) * old)
               \div EXPECTANCY_SMOOTHING_DEN,
            WEIGHT_CAP * WeightUnit),
        -WEIGHT_CAP * WeightUnit)

\* C21: when update_weights applies an update, the new weight of every
\* strategy is alpha x expectancy(s) + (1 - alpha) x old weight clamped to
\* [-3, 3], for every expectancy value.
C21_SmoothedUpdate ==
    (opt.phase = "run" /\ opt.last.op = "update_weights" /\ opt.last.applied)
        => \A s \in StrategyNames :
               opt.weights[s]
                   = Smoothed(calculate_expectancy(opt.journal, s), opt.last.weights[s])

\* C21 for the strategies whose expectancy is not zero.
C21_SmoothedUpdateNonzero ==
    (opt.phase = "run" /\ opt.last.op = "update_weights" /\ opt.last.applied)
        => \A s \in StrategyNames :
               calculate_expectancy(opt.journal, s) # 0
                   => opt.weights[s]
                          = Smoothed(calculate_expectancy(opt.journal, s),
                                     opt.last.weights[s])

----------------------------------------------------------------------------
(* Claims about the Account over a date (SpecDay) *)

\* C29: on one calendar date the number of valid trades plan_trade returned
\* for the Account never exceeds MAX_TRADES_PER_DAY, whatever the order of
\* opens and closes.
C29_PlannedPerDayBounded ==
    mn.phase = "day" => mn.planned <= MAX_TRADES_PER_DAY

\* C29 when every trade is settled before the next one is planned
C29_BoundedWhenClosedFirst ==
    (mn.phase = "day" /\ ~mn.overlapped) => mn.planned <= MAX_TRADES_PER_DAY

\* six trades planned and settled one after the other on one date, and the
\* seventh plan_trade of the date refused
C29_ReachedLimitClosedFirst ==
    /\ mn.phase = "day" /\ ~mn.overlapped
    /\ mn.planned = MAX_TRADES_PER_DAY /\ mn.open = 0
    /\ account.trades_today = MAX_TRADES_PER_DAY
    /\ mn.last = "plan_trade"

\* a guardrail check has just been made, by can_trade or inside plan_trade
JustChecked == mn.phase = "day" /\ mn.last \in {"can_trade", "plan_trade"}

\* C30: at every guardrail check net_pnl_today is the sum of the PnL of the
\* update_pnl calls made on the current date and trades_today their number,
\* for every interleaving of update_pnl and can_trade around a date change.
C30_CountersMatchTheDate ==
    JustChecked
        => /\ account.net_pnl_today = mn.day_sum
           /\ account.trades_today = mn.day_calls

\* C30 when no update_pnl call of the date came before the date's first
\* can_trade
C30_MatchWithoutEarlyClose ==
    (JustChecked /\ ~mn.early)
        => /\ account.net_pnl_today = mn.day_sum
           /\ account.trades_today = mn.day_calls

\* a check on the second date, after a close on that date that followed the
\* rollover
C30_ReachedSecondDate ==
    /\ JustChecked /\ ~mn.early
    /\ today > 0 /\ mn.day_calls > 0
    /\ account.trades_today = mn.day_calls

\* the daily-loss guardrail is tripped for the current date
LockedOut == mn.phase = "day" /\ account.last_reset = today /\ DailyLossReached(account)

\* a plan_trade call made now returns a valid trade for some confidence
PlanValidNow ==
    \E confidence \in Confidences :
        plan_trade(account, Dollars(100), BarsNamed["flat"], confidence,
                   today, now).trade.valid

\* C36: once the daily-loss guardrail has tripped for the Account, plan_trade
\* keeps returning invalid for the rest of that date, whatever trades are
\* closed afterwards.
C36_LockoutHoldsForTheDate ==
    [][(LockedOut /\ today' = today) => ~PlanValidNow']_vars

\* C36 while the guardrail is tripped: plan_trade returns invalid
C36_LockedOutBlocksPlanTrade == LockedOut => ~PlanValidNow

\* C36 for every step of the date but the close of a trade: the guardrail
\* stays tripped
C36_LockedUntilAClose ==
    [][(LockedOut /\ today' = today /\ mn'.last # "update_pnl") => LockedOut']_vars

\* the guardrail is tripped while a trade is still open
C36_ReachedLockedWithOpenTrade == LockedOut /\ mn.open > 0 /\ mn.last = "plan_trade"

----------------------------------------------------------------------------
(* Claims about the symbols of run_backtest (SpecSymbols) *)

\* both runs have finished QQQ
BothFinished ==
    /\ bt.phase = "symbols"
    /\ Len(bt.runs["pair"].logs) = 2 /\ Len(bt.runs["solo"].logs) = 1

C28_SignalsIndependent ==
    BothFinished
        => \A j \in 1..MaxBars :
               bt.runs["pair"].logs[2][j].signal = bt.runs["solo"].logs[1][j].signal

\* C28 for the runs in which SPY planned no valid trade: the two runs agree
\* on QQQ
C28_AgreeWhenFirstSymbolIdle ==
    (BothFinished
        /\ \A j \in 1..MaxBars :
               \A k \in DOMAIN bt.runs["pair"].logs[1][j].decisions :
                   ~bt.runs["pair"].logs[1][j].decisions[k].valid)
        => bt.runs["pair"].logs[2] = bt.runs["solo"].logs[1]

----------------------------------------------------------------------------
(* Claims about the ticks of handle_data (SpecTick) *)

C27_OnceWhenNothingRaises ==
    (mn.phase = "tick" /\ mn.last.op = "handle_data")
        => /\ ~mn.last.raised
                => \A id \in mn.before \cup mn.active : mn.evals[id] = 1
           /\ \A id \in DOMAIN mn.evals : mn.evals[id] <= 1

\* two trades open when a tick began were each evaluated once, and one of
\* them left active_trades
C27_ReachedMonitoring ==
    /\ mn.phase = "tick" /\ mn.last.op = "handle_data" /\ ~mn.last.raised
    /\ Cardinality(mn.before) >= 2
    /\ mn.before \ mn.active # {}
    /\ \A id \in mn.before : mn.evals[id] = 1

----------------------------------------------------------------------------
(* Claims about expected_move_fade (SpecFade) *)

\* the direction the band around the underlying price gives: short above
\* underlying + expected_move, long below underlying - expected_move
FadeBand(price, underlying, move) ==
    IF price > underlying + move THEN -1
    ELSE IF price < underlying - move THEN 1
    ELSE 0

\* C26: expected_move_fade returns -1 when price exceeds underlying +
\* expected_move, +1 when price is below underlying - expected_move, and 0
\* otherwise.
C26_FadeBand ==
    (opt.phase = "fade" /\ opt.last.op = "expected_move_fade"
        /\ "expected_move" \in DOMAIN opt.context)
        => opt.last.value
             = FadeBand(opt.context.price, opt.context.underlying_price,
                        opt.context.expected_move)

\* C26 where the underlying price is 0 and the expected move is not: the
\* band of the code, around zero, is then the band of the claim.
C26_FadeBandAroundZero ==
    (opt.phase = "fade" /\ opt.last.op = "expected_move_fade"
        /\ "expected_move" \in DOMAIN opt.context
        /\ opt.context.expected_move # 0
        /\ opt.context.underlying_price = 0)
        => opt.last.value = FadeBand(opt.context.price, 0, opt.context.expected_move)

----------------------------------------------------------------------------
(* Claims about breakout (SpecBreakout) *)

\* every row has its close between its low and its high
WellFormed(bars) ==
    \A i \in DOMAIN bars : bars[i].low <= bars[i].close /\ bars[i].close <= bars[i].high

BreakoutCalled == opt.phase = "breakout" /\ opt.last.op = "breakout"

\* C39: on every window of bars where each bar has low <= close <= high,
\* breakout returns 0: the rolling high and low are taken over the last
\* LOOKBACK bars, the current bar among them.
C39_BreakoutSilentOnWellFormedBars ==
    (BreakoutCalled /\ WellFormed(opt.bars)) => opt.last.value = 0

\* a full window whose current bar closes at its high, above the highs of
\* all the rows before it, and breakout returned 0
C39_Witness ==
    /\ BreakoutCalled /\ WellFormed(opt.bars)
    /\ Len(opt.bars) > LOOKBACK
    /\ opt.bars[Len(opt.bars)].close = opt.bars[Len(opt.bars)].high
    /\ \A i \in 1..(Len(opt.bars) - 1) :
           opt.bars[i].high < opt.bars[Len(opt.bars)].close
    /\ opt.last.value = 0

\* breakout returns 1 and -1 on rows whose close is outside their range
C39_ReachedBothSignals ==
    BreakoutCalled /\ ~WellFormed(opt.bars) /\ opt.last.value # 0

----------------------------------------------------------------------------
(* Claims about the journal files (SpecJournal) *)

\* every line of every journal file
JournalRecords ==
    UNION {{opt.files[d][k] : k \in DOMAIN opt.files[d]} : d \in DOMAIN opt.files}

\* update_trade_outcome has just returned
UpdateReturned == opt.phase = "journal" /\ opt.last.op = "update_trade_outcome"

\* C35: after update_trade_outcome(id, outcome, pnl) for a trade save_trade
\* wrote, the journal record with that id carries that outcome and pnl,
\* whatever the dates of the save and of the update.
C35_RecordCarriesOutcome ==
    UpdateReturned
        => \E rec \in JournalRecords :
               /\ rec.id = opt.last.id
               /\ rec.outcome = opt.last.outcome
               /\ rec.pnl = opt.last.pnl

\* C35 for an update made on the date of the save, of a record that no
\* concurrent rewrite has dropped
C35_CarriesOutcomeOnSameDate ==
    (UpdateReturned /\ opt.saved[opt.last.id] = opt.last.date
        /\ opt.last.id \notin opt.raced)
        => \E rec \in JournalRecords :
               /\ rec.id = opt.last.id
               /\ rec.outcome = opt.last.outcome
               /\ rec.pnl = opt.last.pnl

\* an update on the date of the save has set TARGET on the record
C35_ReachedSameDateUpdate ==
    /\ UpdateReturned /\ opt.saved[opt.last.id] = opt.last.date
    /\ [id |-> opt.last.id, outcome |-> "TARGET", pnl |-> OutcomePnl("TARGET")]
           \in JournalRecords

\* C38: no journal record is lost: under every interleaving of save_trade
\* with update_trade_outcome, every record save_trade appended is still in
\* the journal afterwards.
C38_NoRecordLost ==
    opt.phase = "journal"
        => \A id \in DOMAIN opt.saved : \E rec \in JournalRecords : rec.id = id

\* C38 for the records that were not appended between the read and the
\* replace of an update of the same file
C38_NoLossOutsideRewrite ==
    opt.phase = "journal"
        => \A id \in DOMAIN opt.saved \ opt.raced :
               \E rec \in JournalRecords : rec.id = id

\* two records saved and two updates returned with nothing lost
C38_ReachedTwoUpdates ==
    /\ UpdateReturned /\ opt.calls = MaxOutcomes /\ opt.raced = {}
    /\ Len(opt.saved) = MaxSaves
    /\ \A id \in DOMAIN opt.saved : \E rec \in JournalRecords : rec.id = id

----------------------------------------------------------------------------
(* Claims about detect_regime (SpecRegime) *)

\* implied volatility is a number above 1.5 times the realized volatility
IvAboveRealized ==
    /\ opt.in.implied.kind = "num" /\ opt.in.realized.kind = "num"
    /\ 2 * opt.in.implied.v > 3 * opt.in.realized.v

\* ATR% above 1.5% and RSI strictly between 40 and 60
TrendLike == opt.in.atr_pct > 150 /\ opt.in.rsi > 40 /\ opt.in.rsi < 60

\* RSI above 70 or below 30
RsiExtreme == opt.in.rsi > 70 \/ opt.in.rsi < 30

\* C25: detect_regime returns high_iv if implied volatility > 1.5 x realized
\* volatility whatever ATR% and RSI are, else trend if ATR% > 1.5% and
\* 40 < RSI < 60, else mean_reversion if RSI > 70 or RSI < 30, else neutral;
\* an exception during the computation gives neutral.
C25_FirstMatchOrder ==
    (opt.phase = "regime" /\ opt.last.op = "detect_regime")
        => opt.last.value
             = CASE opt.in.raises   -> "neutral"
                 [] ~opt.in.raises /\ IvAboveRealized -> "high_iv"
                 [] ~opt.in.raises /\ ~IvAboveRealized /\ TrendLike -> "trend"
                 [] ~opt.in.raises /\ ~IvAboveRealized /\ ~TrendLike /\ RsiExtreme
                        -> "mean_reversion"
                 [] OTHER -> "neutral"

\* implied above 1.5 x realized together with a trend-like ATR% and RSI:
\* high_iv
C25_Witness ==
    /\ opt.phase = "regime" /\ opt.last.op = "detect_regime"
    /\ ~opt.in.raises /\ IvAboveRealized /\ TrendLike
    /\ opt.last.value = "high_iv"

\* an exception with every rule matching: neutral
C25_WitnessException ==
    /\ opt.phase = "regime" /\ opt.last.op = "detect_regime"
    /\ opt.in.raises /\ IvAboveRealized /\ opt.in.atr_pct > 150 /\ RsiExtreme
    /\ opt.last.value = "neutral"

\* implied exactly 1.5 x realized is not high_iv, RSI 71: mean_reversion
C25_WitnessBoundary ==
    /\ opt.phase = "regime" /\ opt.last.op = "detect_regime"
    /\ ~opt.in.raises
    /\ opt.in.implied = Num(300) /\ opt.in.realized = Num(200) /\ opt.in.rsi = 71
    /\ opt.last.value = "mean_reversion"

----------------------------------------------------------------------------
(* Claims about calculate_expectancy (SpecExpectancy) *)

\* the records calculate_expectancy("all" or a strategy) selects
Selected(strategy) ==
    {k \in ExpKinds : strategy = "all" \/ k.strategy = strategy}

CountOf(kinds) == SumKinds(opt.journal, kinds, [k \in kinds |-> 1])
PnlOf(kinds) == SumKinds(opt.journal, kinds, [k \in kinds |-> k.pnl])

C24_WitnessLarger ==
    /\ opt.phase = "expectancy" /\ opt.last.op = "calculate_expectancy"
    /\ CountOf(Selected(opt.last.strategy)) > SMALL_SAMPLE
    /\ CountOf({ExpOpen}) = 0
    /\ opt.last.value < 0

\* the journal without its saved and not yet closed trades
WithoutOpen(journal) == [journal EXCEPT ![ExpOpen] = 0]

\* the journal with every open trade closed at a PnL of 0
OpenAsEven(journal) ==
    [journal EXCEPT ![ExpOpen] = 0, ![ExpEven] = journal[ExpEven] + journal[ExpOpen]]

\* C37: calculate_expectancy counts only trades with a terminal outcome: a
\* saved and not yet closed trade (outcome OPEN, pnl 0) does not change the
\* expectancy of its strategy or of "all".
C37_OpenTradesNotCounted ==
    (opt.phase = "expectancy" /\ opt.last.op = "calculate_expectancy")
        => opt.last.value
              = calculate_expectancy(WithoutOpen(opt.journal), opt.last.strategy)

\* C37 as the code has it: an open trade counts as a trade closed at 0
C37_OpenCountsAsClosedAtZero ==
    (opt.phase = "expectancy" /\ opt.last.op = "calculate_expectancy")
        => opt.last.value
              = calculate_expectancy(OpenAsEven(opt.journal), opt.last.strategy)

\* C37 below ten selected trades, where the len/10 scaling cancels the count
C37_NotCountedInSmallSamples ==
    (opt.phase = "expectancy" /\ opt.last.op = "calculate_expectancy"
        /\ CountOf(Selected(opt.last.strategy)) < SMALL_SAMPLE)
        => opt.last.value
              = calculate_expectancy(WithoutOpen(opt.journal), opt.last.strategy)

\* an expectancy over ten closed trades and one open trade
C37_ReachedOpenAmongTen ==
    /\ opt.phase = "expectancy" /\ opt.last.op = "calculate_expectancy"
    /\ CountOf({ExpOpen}) = 1
    /\ CountOf(Selected(opt.last.strategy)) = SMALL_SAMPLE + 1
    /\ opt.last.value > 0

----------------------------------------------------------------------------
(* Claims about the persisted weights (SpecPersist) *)

InRange(w) == -WEIGHT_CAP * WeightUnit <= w /\ w <= WEIGHT_CAP * WeightUnit

C22_InRangeFromGoodFiles ==
    (opt.phase = "run"
        /\ (opt.start = <<>> \/ opt.start[1].kind # "dict"
              \/ \A s \in DOMAIN opt.start[1].data : InRange(opt.start[1].data[s])))
        => \A s \in DOMAIN opt.weights : InRange(opt.weights[s])

\* C23: wherever save_weights is interrupted, the weights file holds the
\* complete content it had before the save or the complete new weights,
\* never a partial write, and the load_weights of a later start goes through:
\* the weights are the defaults overridden by what a readable file holds.
C23_AtomicSave ==
    opt.phase = "run"
        => /\ (opt.file = opt.prev \/ opt.file = opt.new)
           /\ opt.last.op = "load_weights"
                => /\ opt.pc = "idle"
                   /\ StrategyNames \subseteq DOMAIN opt.weights
                   /\ \A s \in StrategyNames :
                          opt.weights[s]
                              = IF opt.file # <<>> /\ opt.file[1].kind = "dict"
                                   /\ s \in DOMAIN opt.file[1].data
                                THEN opt.file[1].data[s] ELSE DefaultWeights[s]

\* the process was killed while json.dump was writing the temporary file,
\* over a weights file an earlier save had written, and has started again
\* with that file's weights
C23_Witness ==
    /\ opt.phase = "run" /\ opt.last.op = "load_weights"
    /\ opt.crashes > 0
    /\ opt.tmp = <<FileGarbage>>
    /\ opt.file # opt.start /\ opt.file = opt.prev /\ opt.file # opt.new
    /\ opt.weights = opt.file[1].data

\* a write error left the temporary file truncated and the weights file as
\* it was
C23_WitnessWriteError ==
    /\ opt.phase = "run" /\ opt.last = [op |-> "save_error", at |-> "dump"]
    /\ opt.tmp = <<FileGarbage>>
    /\ opt.file = opt.prev /\ opt.file # opt.new

----------------------------------------------------------------------------
(* Claims about run_backtest (SpecBacktest) *)

\* the trades the two runs have closed
BacktestExits ==
    UNION {{bt.runs[x].exits[k] : k \in DOMAIN bt.runs[x].exits} : x \in Runs}

C33_AccountEquityIsReportedEquity ==
    bt.phase = "run"
        => \A x \in Runs : bt.runs[x].account.equity = bt.runs[x].equity

\* the two move together: the Account's equity stays above the reported
\* equity by the difference of their starting values
C33_EquitiesMoveTogether ==
    bt.phase = "run"
        => \A x \in Runs :
               bt.runs[x].account.equity - bt.runs[x].equity
                   = Dollars(DEFAULT_EQUITY) - Dollars(STARTING_EQUITY)

\* a run has closed a trade and both equities have moved
C33_ReachedAfterClose ==
    /\ bt.phase = "run"
    /\ \E x \in Runs :
          /\ bt.runs[x].closed > 0
          /\ bt.runs[x].equity # Dollars(STARTING_EQUITY)
          /\ bt.runs[x].account.equity # Dollars(DEFAULT_EQUITY)

\* what run_backtest computes instead: the PnL of a closed long trade is
\* never positive and that of a short trade never negative, whatever the
\* outcome
C32_BacktestPnlSignIsDirection ==
    bt.phase = "run"
        => \A e \in BacktestExits :
               /\ e.long => e.pnl <= 0
               /\ ~e.long => e.pnl >= 0

\* what two runs have logged for bar j, when both have reached it
BothLogged(j) == j <= Len(bt.runs["A"].log) /\ j <= Len(bt.runs["B"].log)

C7_SignalNoLookAhead ==
    bt.phase = "run"
        => \A j \in 1..(bt.k - 1) :
               BothLogged(j)
                   => bt.runs["A"].log[j].signal = bt.runs["B"].log[j].signal

====
